---- MODULE Spec2Model ----
(***************************************************************************)
(* auto_tmpdir: a SLURM SPANK plugin that creates and destroys per-job and *)
(* per-step temporary directories.                                         *)
(*                                                                         *)
(* Two generations of the plugin are modelled:                             *)
(*   - src/unnamed/part_000 : the current plugin (task_init / task_exit /  *)
(*     exit callbacks, privilege dropping, shared storage);                *)
(*   - src/auto_tmpdir.c    : the earlier plugin (user_init / exit, the    *)
(*     remover checks the owner of the top-level directory).               *)
(*                                                                         *)
(* Strings are sequences of one-character strings, so that the C code's    *)
(* character-wise walks and snprintf formats are modelled as they compute. *)
(* Every process (a slurmstepd of one step on one node) runs its callbacks *)
(* to completion; processes interleave at file-system calls.               *)
(***************************************************************************)
EXTENDS Integers, Sequences, FiniteSets, TLC

(***************************************************************************)
(* Characters and strings                                                  *)
(***************************************************************************)
NUL == ""

Digit == <<"0", "1", "2", "3", "4", "5", "6", "7", "8", "9">>

Min(a, b) == IF a < b THEN a ELSE b

(* A uint32_t is the pair <<high 16 bits, low 16 bits>>: the model checker's *)
(* integers stop short of 2^32, and the step-id sentinels sit at its top.  *)
U32(n) == <<(n \div 65536) % 65536, n % 65536>>

U32IsZero(v) == v[1] = 0 /\ v[2] = 0

U32Div10(v) == <<v[1] \div 10, (((v[1] % 10) * 65536) + v[2]) \div 10>>

U32Mod10(v) == (((v[1] % 10) * 65536) + v[2]) % 10

(* "%u" of an unsigned 32-bit value *)
RECURSIVE Dec(_)
Dec(v) == IF U32IsZero(U32Div10(v)) THEN <<Digit[U32Mod10(v) + 1]>>
          ELSE Dec(U32Div10(v)) \o <<Digit[U32Mod10(v) + 1]>>

(* the C character at 0-based index i of a NUL-terminated string s *)
CharAt(s, i) == IF i < Len(s) THEN s[i + 1] ELSE NUL

(* the C string left in a buffer when a NUL is written at 0-based index i *)
CutAt(s, i) == SubSeq(s, 1, Min(i, Len(s)))

HasPrefix(s, pre) == Len(pre) <= Len(s) /\ SubSeq(s, 1, Len(pre)) = pre

(* pre is the path s or an ancestor directory of it *)
PathUnder(s, pre) == HasPrefix(s, pre) /\ (Len(s) = Len(pre) \/ s[Len(pre) + 1] = "/")

S_slash == <<"/">>
S_job == <<"/", "j", "o", "b", "_">>
S_step == <<"/", "s", "t", "e", "p", "_">>
S_dot == <<".">>
S_null == <<"(", "n", "u", "l", "l", ")">>
S_per_node == <<"p", "e", "r", "-", "n", "o", "d", "e">>
S_f == <<"f">>

(* a C NULL pointer to a string; no option value is ever the empty string  *)
(* where it matters (_opt_tmpdir rejects a value not starting with '/')    *)
NULL == <<>>

(***************************************************************************)
(* Program constants                                                       *)
(***************************************************************************)
default_tmpdir_prefix == <<"/", "t", "m", "p">>

shared_tmpdir_prefix == <<"/", "s", "h", "a", "r", "e", "d">>

PATH_MAX == 4096

HOSTNAME_SIZE == 64

(* 0xfffffffe and 0xffffffff *)
SLURM_BATCH_SCRIPT == <<65535, 65534>>

SLURM_EXTERN_CONT == <<65535, 65535>>

ESPANK_SUCCESS == 0

ESPANK_ERROR == 1

ESPANK_BAD_ARG == 2

(***************************************************************************)
(* Directory format strings                                                *)
(***************************************************************************)
job_dir_sprintf_format(tmpdir, job_id) ==
    tmpdir \o S_job \o Dec(job_id)

(* the per-step format with the task id left out of the directory name *)
job_step_dir_without_task(tmpdir, job_id, job_step_id, local_task_id) ==
    tmpdir \o S_job \o Dec(job_id) \o S_step \o Dec(job_step_id) \o S_dot \o Dec(U32(0))

job_step_dir_sprintf_format(tmpdir, job_id, job_step_id, local_task_id) ==
    tmpdir \o S_job \o Dec(job_id)
           \o S_step \o Dec(job_step_id) \o S_dot \o Dec(local_task_id)

pernode_job_dir_sprintf_format(tmpdir, job_id, hostname) ==
    tmpdir \o S_job \o Dec(job_id) \o S_slash \o hostname

pernode_job_step_dir_sprintf_format(tmpdir, job_id, hostname, job_step_id, local_task_id) ==
    tmpdir \o S_job \o Dec(job_id) \o S_slash \o hostname
           \o S_step \o Dec(job_step_id) \o S_dot \o Dec(local_task_id)

(* snprintf(buffer, capacity, ...): the length the full text would have,   *)
(* and the text left in the buffer (at most capacity - 1 characters)       *)
snprintf(capacity, text) ==
    [len |-> Len(text),
     buf |-> IF Len(text) < capacity THEN text ELSE SubSeq(text, 1, capacity - 1)]

(* hostname[] after the scan for the first '.' in _sprint_tmpdir *)
RECURSIVE FirstDot(_, _)
FirstDot(h, i) ==
    IF i < HOSTNAME_SIZE - 1 /\ CharAt(h, i) # NUL /\ CharAt(h, i) # "."
    THEN FirstDot(h, i + 1) ELSE i

(* the host name as gethostname() gave it *)
FullHostname(h) == h

ShortHostname(h) == CutAt(SubSeq(h, 1, Min(Len(h), HOSTNAME_SIZE - 1)), FirstDot(h, 0))

(* the test of auto_tmpdir.c, which knows the batch step alone *)
IsBatchOnly(job_step_id) == job_step_id = SLURM_BATCH_SCRIPT

IsBatchOrExtern(job_step_id) ==
    job_step_id = SLURM_BATCH_SCRIPT \/ job_step_id = SLURM_EXTERN_CONT

(***************************************************************************)
(* Users, groups, permission bits                                          *)
(***************************************************************************)
RootUid == 0
RootGid == 0
JobUid == 1000
JobGid == 1000
OtherUid == 2000
OtherGid == 2000

(* 0750: what mkdir would be given were the group let in *)
Mode0750 == {<<"u", "r">>, <<"u", "w">>, <<"u", "x">>, <<"g", "r">>, <<"g", "x">>}

Mode0700 == {<<"u", "r">>, <<"u", "w">>, <<"u", "x">>}
Mode0755 == Mode0700 \cup {<<"g", "r">>, <<"g", "x">>, <<"o", "r">>, <<"o", "x">>}
Mode0777 == Mode0755 \cup {<<"g", "w">>, <<"o", "w">>}
Mode1777 == Mode0777 \cup {<<"t", "t">>}
Mode0644 == {<<"u", "r">>, <<"u", "w">>, <<"g", "r">>, <<"o", "r">>}
Umask022 == {<<"g", "w">>, <<"o", "w">>}

(***************************************************************************)
(* The file system: a function from <<volume, canonical path>> to the      *)
(* entry there.  A node's local paths live on the volume named after the   *)
(* node; paths under the shared prefix live on the volume "shared", which  *)
(* every node sees.  "/" is always there.                                  *)
(***************************************************************************)
Root == <<"/">>

Entry(kind, uid, gid, mode, target, dev) ==
    [kind |-> kind, uid |-> uid, gid |-> gid, mode |-> mode, target |-> target, dev |-> dev]

VolOf(node, path) == IF PathUnder(path, shared_tmpdir_prefix) THEN "shared" ELSE node

RootEntry(vol) == Entry("dir", RootUid, RootGid, Mode0755, NULL, vol)

Has(f, node, path) == path = Root \/ <<VolOf(node, path), path>> \in DOMAIN f

Get(f, node, path) ==
    IF path = Root THEN RootEntry(node) ELSE f[<<VolOf(node, path), path>>]

RECURSIVE LastSlash(_, _)
LastSlash(path, i) ==
    IF i <= 1 THEN 1 ELSE IF path[i] = "/" THEN i ELSE LastSlash(path, i - 1)

Parent(path) ==
    IF LastSlash(path, Len(path)) <= 1 THEN Root
    ELSE SubSeq(path, 1, LastSlash(path, Len(path)) - 1)

(* the components of a path, empty ones (doubled slashes) dropped *)
RECURSIVE Split(_, _, _)
Split(path, i, cur) ==
    IF i > Len(path) THEN (IF cur = <<>> THEN <<>> ELSE <<cur>>)
    ELSE IF path[i] = "/"
         THEN (IF cur = <<>> THEN <<>> ELSE <<cur>>) \o Split(path, i + 1, <<>>)
         ELSE Split(path, i + 1, Append(cur, path[i]))

Join(dir, name) == IF dir = Root THEN dir \o name ELSE dir \o S_slash \o name

PermClass(e, uid, gid) ==
    IF uid = e.uid THEN "u" ELSE IF gid = e.gid THEN "g" ELSE "o"

MayUse(e, uid, gid, bit) ==
    uid = RootUid \/ <<PermClass(e, uid, gid), bit>> \in e.mode

(* Path resolution as the kernel does it: walk the components from "/",    *)
(* following a symbolic link met on the way (and the last one when follow  *)
(* is set); every directory walked through must be searchable.             *)
MaxLinks == 4

RECURSIVE Walk(_, _, _, _, _, _, _, _)
WalkInto(f, node, uid, gid, comps, follow, links, here) ==
    IF Has(f, node, here) /\ Get(f, node, here).kind = "link" /\ (follow \/ Len(comps) > 1)
    THEN IF links = 0 THEN [err |-> "ELOOP", path |-> here]
         ELSE Walk(f, node, uid, gid, Root,
                   Split(Get(f, node, here).target, 1, <<>>) \o Tail(comps),
                   follow, links - 1)
    ELSE Walk(f, node, uid, gid, here, Tail(comps), follow, links)

Walk(f, node, uid, gid, cur, comps, follow, links) ==
    IF comps = <<>> THEN [err |-> "OK", path |-> cur]
    ELSE IF ~Has(f, node, cur) THEN [err |-> "ENOENT", path |-> cur]
    ELSE IF Get(f, node, cur).kind # "dir" THEN [err |-> "ENOTDIR", path |-> cur]
    ELSE IF ~MayUse(Get(f, node, cur), uid, gid, "x") THEN [err |-> "EACCES", path |-> cur]
    ELSE WalkInto(f, node, uid, gid, comps, follow, links, Join(cur, Head(comps)))

Resolve(f, node, uid, gid, path, follow) ==
    Walk(f, node, uid, gid, Root, Split(path, 1, <<>>), follow, MaxLinks)

Children(f, node, dir) ==
    {k[2] : k \in {kk \in DOMAIN f : kk[1] = VolOf(node, dir) /\ Parent(kk[2]) = dir}}

(* stat(2) / lstat(2): the errno, and the canonical path of the entry *)
StatAt(f, node, r) ==
    IF r.err # "OK" THEN r
    ELSE IF ~Has(f, node, r.path) THEN [err |-> "ENOENT", path |-> r.path]
    ELSE r

SysStat(f, node, uid, gid, path, follow) ==
    StatAt(f, node, Resolve(f, node, uid, gid, path, follow))

(* S_ISDIR taken as true of whatever stat found *)
S_ISDIR_any(f, node, st) == TRUE

S_ISDIR(f, node, st) == Get(f, node, st.path).kind = "dir"

(* access(path, R_OK|W_OK|X_OK): judged with the REAL uid and gid *)
AccessAt(ruid, rgid, e) ==
    IF ruid = RootUid
    THEN (IF e.kind = "dir" \/ \E c \in {"u", "g", "o"} : <<c, "x">> \in e.mode
          THEN "OK" ELSE "EACCES")
    ELSE IF \A b \in {"r", "w", "x"} : MayUse(e, ruid, rgid, b)
         THEN "OK" ELSE "EACCES"

AccessOf(f, node, ruid, rgid, st) ==
    IF st.err # "OK" THEN st.err ELSE AccessAt(ruid, rgid, Get(f, node, st.path))

SysAccess(f, node, ruid, rgid, path) ==
    AccessOf(f, node, ruid, rgid, SysStat(f, node, ruid, rgid, path, TRUE))

(* mkdir(path, mode) under the given umask *)
MkdirIn(f, node, uid, gid, mode, path, vol, par) ==
    IF ~MayUse(par, uid, gid, "w") THEN [err |-> "EACCES", fs |-> f, path |-> path]
    ELSE [err |-> "OK", path |-> path,
          fs |-> (<<vol, path>> :> Entry("dir", uid, gid, mode, NULL, par.dev)) @@ f]

MkdirAt(f, node, uid, gid, mode, r) ==
    IF r.err # "OK" THEN [err |-> r.err, fs |-> f, path |-> r.path]
    ELSE IF Has(f, node, r.path) THEN [err |-> "EEXIST", fs |-> f, path |-> r.path]
    ELSE MkdirIn(f, node, uid, gid, mode, r.path, VolOf(node, r.path),
                 Get(f, node, Parent(r.path)))

SysMkdir(f, node, uid, gid, path, mode, umask) ==
    MkdirAt(f, node, uid, gid, mode \ umask, Resolve(f, node, uid, gid, path, FALSE))

(* remove(3): unlink(2) of a non-directory, rmdir(2) of a directory *)
RemoveIn(f, node, uid, gid, path, vol, e, par) ==
    IF ~MayUse(par, uid, gid, "w") THEN [err |-> "EACCES", fs |-> f, path |-> path]
    ELSE IF <<"t", "t">> \in par.mode /\ uid # RootUid /\ uid # e.uid /\ uid # par.uid
    THEN [err |-> "EPERM", fs |-> f, path |-> path]
    ELSE IF e.kind = "dir" /\ e.dev # par.dev
    THEN [err |-> "EBUSY", fs |-> f, path |-> path]
    ELSE IF e.kind = "dir" /\ Children(f, node, path) # {}
    THEN [err |-> "ENOTEMPTY", fs |-> f, path |-> path]
    ELSE [err |-> "OK", path |-> path,
          fs |-> [k \in (DOMAIN f) \ {<<vol, path>>} |-> f[k]]]

RemoveAt(f, node, uid, gid, r) ==
    IF r.err # "OK" THEN [err |-> r.err, fs |-> f, path |-> r.path]
    ELSE IF ~Has(f, node, r.path) THEN [err |-> "ENOENT", fs |-> f, path |-> r.path]
    ELSE IF r.path = Root THEN [err |-> "EBUSY", fs |-> f, path |-> r.path]
    ELSE RemoveIn(f, node, uid, gid, r.path, VolOf(node, r.path),
                  Get(f, node, r.path), Get(f, node, Parent(r.path)))

SysRemove(f, node, uid, gid, path) ==
    RemoveAt(f, node, uid, gid, Resolve(f, node, uid, gid, path, FALSE))

(***************************************************************************)
(* Process identity: seteuid(2) and setegid(2)                             *)
(***************************************************************************)
Cred(ruid, euid, suid, rgid, egid, sgid) ==
    [ruid |-> ruid, euid |-> euid, suid |-> suid, rgid |-> rgid, egid |-> egid, sgid |-> sgid]

MaySeteuid(c, uid) == c.euid = RootUid \/ uid \in {c.ruid, c.euid, c.suid}

MaySetegid(c, gid) == c.euid = RootUid \/ gid \in {c.rgid, c.egid, c.sgid}

seteuid(c, uid) == IF MaySeteuid(c, uid) THEN [c EXCEPT !.euid = uid] ELSE c

setegid(c, gid) == IF MaySetegid(c, gid) THEN [c EXCEPT !.egid = gid] ELSE c

(* "Drop privileges:" without its two tests: both calls are made and the   *)
(* caller goes on whatever they returned                                   *)
DropPrivileges_unchecked(c, jobUid, jobGid) ==
    [status |-> "ok", cred |-> seteuid(setegid(c, jobGid), jobUid),
     didSetUid |-> IF jobUid # c.euid THEN 1 ELSE 0,
     didSetGid |-> IF jobGid # c.egid THEN 1 ELSE 0]

(* "Drop privileges:" of slurm_spank_task_init and __cleanup_tmpdir: the    *)
(* group first, then the user; a failing call returns at once.             *)
DropPrivileges(c, jobUid, jobGid) ==
    LET savedUid == c.euid
        savedGid == c.egid
        wantGid == jobGid # savedGid
        wantUid == jobUid # savedUid
        c1 == IF wantGid THEN setegid(c, jobGid) ELSE c
    IN  IF wantGid /\ ~MaySetegid(c, jobGid)
        THEN [status |-> "setegid_failed", cred |-> c, didSetUid |-> 0, didSetGid |-> 0]
        ELSE IF wantUid /\ ~MaySeteuid(c1, jobUid)
        THEN [status |-> "seteuid_failed", cred |-> c1, didSetUid |-> 0,
              didSetGid |-> IF wantGid THEN 1 ELSE 0]
        ELSE [status |-> "ok", cred |-> IF wantUid THEN seteuid(c1, jobUid) ELSE c1,
              didSetUid |-> IF wantUid THEN 1 ELSE 0,
              didSetGid |-> IF wantGid THEN 1 ELSE 0]

(* "Restore privileges:" with the second line left out *)
RestorePrivileges_uid_only(c, savedUid, savedGid, didSetUid, didSetGid) ==
    IF didSetUid = 1 THEN seteuid(c, savedUid) ELSE c

(* "Restore privileges:": the user first, then the group; the results of   *)
(* the two calls are not looked at.                                        *)
RestorePrivileges(c, savedUid, savedGid, didSetUid, didSetGid) ==
    LET c1 == IF didSetUid = 1 THEN seteuid(c, savedUid) ELSE c
    IN  IF didSetGid = 1 THEN setegid(c1, savedGid) ELSE c1

(***************************************************************************)
(* State                                                                   *)
(***************************************************************************)
Procs == {"p1", "p2"}

VARIABLES
    fs,                              \* the file systems of the nodes and the shared one
    spank,                           \* per process: what spank_get_item / spank_getenv
                                     \* hand out (job, step, task, owner, node, options)
    TMPDIR,                          \* per process: TMPDIR in the job environment
    base_tmpdir,                     \* per process: the plugin's global of that name
    should_remove_tmpdir,
    should_create_per_step_tmpdirs,
    should_create_on_shared,
    should_add_pernode_on_shared,
    cred,                            \* per process: real/effective/saved uid and gid
    pc,                              \* per process: where it stands
    loc,                             \* per process: the locals of the callback under way
    calls,                           \* history: the callbacks that have returned
    created,                         \* history: directories made by mkdir
    removed,                         \* history: entries removed by remove
    rmcalls,                         \* history: the calls of _rmdir_recurse
    sysops                           \* history: identity under which each kind of
                                     \* file-system call was made

globals == <<base_tmpdir, should_remove_tmpdir, should_create_per_step_tmpdirs,
             should_create_on_shared, should_add_pernode_on_shared>>

history == <<calls, created, removed, rmcalls, sysops>>

vars == <<fs, spank, TMPDIR, globals, cred, pc, loc, history>>

(* the plugin is built with or without -DWITH_SHARED_STORAGE; every        *)
(* process of a run loads the same build                                   *)
WITH_SHARED_STORAGE(p) == spank[p].with_shared_storage

OPT_no_rm_tmpdir == "SLURM_SPANK__SLURM_SPANK_OPTION_auto_tmpdir_no_rm_tmpdir"
OPT_no_step_tmpdir == "SLURM_SPANK__SLURM_SPANK_OPTION_auto_tmpdir_no_step_tmpdir"
OPT_tmpdir == "SLURM_SPANK__SLURM_SPANK_OPTION_auto_tmpdir_tmpdir"
OPT_use_shared_tmpdir == "SLURM_SPANK__SLURM_SPANK_OPTION_auto_tmpdir_use_shared_tmpdir"

LocInit ==
    [cb |-> "", savedUid |-> 0, savedGid |-> 0, didSetUid |-> 0, didSetGid |-> 0,
     drop |-> "", caller |-> "", path |-> "", had_initial_error |-> 0,
     tmpdir |-> NULL, prefix |-> "", tmpdirlen |-> 0, i |-> 0, final |-> FALSE,
     stray |-> 0, rc |-> 0, task_id |-> <<0, 0>>, finfo |-> FALSE, match_uid |-> 0,
     creators_done |-> FALSE, again |-> FALSE,
     fts |-> [dev |-> "", stack |-> <<>>, cur |-> [path |-> NULL, info |-> "", dev |-> ""],
              top |-> NULL, topuid |-> 0]]

(***************************************************************************)
(* The option callbacks                                                    *)
(***************************************************************************)
(* _opt_tmpdir: the new value of base_tmpdir and the return code *)
_opt_tmpdir(old, optarg) ==
    IF CharAt(optarg, 0) # "/" THEN [rc |-> ESPANK_BAD_ARG, base_tmpdir |-> old]
    ELSE [rc |-> ESPANK_SUCCESS, base_tmpdir |-> optarg]

(* a callback that flips the flag at every call *)
_opt_use_shared_toggle(old_shared, old_pernode, optarg) ==
    [rc |-> ESPANK_SUCCESS, should_create_on_shared |-> 1 - old_shared,
     should_add_pernode_on_shared |-> old_pernode]

(* _opt_use_shared_tmpdir: optarg is NULL or the text after '=' *)
_opt_use_shared_tmpdir(old_shared, old_pernode, optarg) ==
    IF optarg # NULL /\ optarg # S_null
    THEN IF optarg = S_per_node
         THEN [rc |-> ESPANK_SUCCESS, should_create_on_shared |-> 1,
               should_add_pernode_on_shared |-> 1]
         ELSE [rc |-> ESPANK_BAD_ARG, should_create_on_shared |-> old_shared,
               should_add_pernode_on_shared |-> old_pernode]
    ELSE [rc |-> ESPANK_SUCCESS, should_create_on_shared |-> 1,
          should_add_pernode_on_shared |-> old_pernode]

(***************************************************************************)
(* _get_base_tmpdir.  `path` is one of the three pointers it can hold:     *)
(* "base" (base_tmpdir), "shared" (shared_tmpdir_prefix), "default"        *)
(* (default_tmpdir_prefix); the code compares the pointers, not the text.  *)
(***************************************************************************)
PrefixText(p, tag) ==
    CASE tag = "base" -> base_tmpdir[p]
      [] tag = "shared" -> shared_tmpdir_prefix
      [] OTHER -> default_tmpdir_prefix

FirstCandidate(p) ==
    IF base_tmpdir[p] # NULL THEN "base"
    ELSE IF WITH_SHARED_STORAGE(p) /\ should_create_on_shared[p] = 1 THEN "shared"
    ELSE "default"

(* a _get_base_tmpdir that gives up after the first failed access() *)
NextCandidate_none(p, tag) == "none"

(* the next candidate after a failed access(), "none" when the code returns NULL *)
NextCandidate(p, tag) ==
    IF tag = "base"
    THEN (IF WITH_SHARED_STORAGE(p) /\ should_create_on_shared[p] = 1 THEN "shared" ELSE "default")
    ELSE IF WITH_SHARED_STORAGE(p) /\ tag = "shared" THEN "default"
    ELSE "none"

(***************************************************************************)
(* _sprint_tmpdir, from the return of _get_base_tmpdir on                  *)
(***************************************************************************)
SprintText(p, tag, tmpdir, hostname, job_id, job_step_id, local_task_id, ignore_pernode) ==
    IF WITH_SHARED_STORAGE(p) /\ tag = "shared" /\ should_add_pernode_on_shared[p] = 1
    THEN IF should_create_per_step_tmpdirs[p] = 0 \/ IsBatchOrExtern(job_step_id)
         THEN IF ignore_pernode = 1
              THEN job_dir_sprintf_format(tmpdir, job_id)
              ELSE pernode_job_dir_sprintf_format(tmpdir, job_id, hostname)
         ELSE pernode_job_step_dir_sprintf_format(tmpdir, job_id, hostname,
                                                  job_step_id, local_task_id)
    ELSE IF should_create_per_step_tmpdirs[p] = 0 \/ IsBatchOrExtern(job_step_id)
         THEN job_dir_sprintf_format(tmpdir, job_id)
         ELSE job_step_dir_sprintf_format(tmpdir, job_id, job_step_id, local_task_id)

(* lines 315-320: the length test and what the caller gets back *)
SprintReturn(tag, buffer_capacity, out) ==
    IF out.len > 0 /\ out.len < buffer_capacity
    THEN [ret |-> out.len, buffer |-> out.buf, tmpdir_prefix |-> tag]
    ELSE [ret |-> -1, buffer |-> out.buf, tmpdir_prefix |-> "none"]

_sprint_tmpdir(p, tag, buffer_capacity, job_id, job_step_id, local_task_id, ignore_pernode) ==
    IF tag = "none" THEN [ret |-> -1, buffer |-> NULL, tmpdir_prefix |-> "none"]
    ELSE SprintReturn(tag, buffer_capacity,
            snprintf(buffer_capacity,
                     SprintText(p, tag, PrefixText(p, tag), ShortHostname(spank[p].hostname),
                                job_id, job_step_id, local_task_id, ignore_pernode)))

(***************************************************************************)
(* Helpers of the actions                                                  *)
(***************************************************************************)
Upd(f, p, v) == [f EXCEPT ![p] = v]

Node(p) == spank[p].node

Why(kind, err, isdir) == [kind |-> kind, err |-> err, isdir |-> isdir]

NoWhy == Why("", "", FALSE)

(* history: slurm_spank_task_init has already succeeded for this very task *)
(* (same node, job, step and task id) in another process, whose task is    *)
(* still running                                                           *)
Again(p) ==
    \E q \in Procs \ {p} :
        /\ pc[q] = "running"
        /\ TMPDIR[q] # NULL
        /\ <<spank[q].node, spank[q].job_id, spank[q].job_step_id, spank[q].task_id>>
              = <<spank[p].node, spank[p].job_id, spank[p].job_step_id, spank[p].task_id>>

(* the record kept of a callback that has returned *)
CallRecord(p, l, cb, rc, body, why, after) ==
    [p |-> p, cb |-> cb, rc |-> rc, drop |-> l.drop, didSetGid |-> l.didSetGid,
     entry |-> <<l.savedUid, l.savedGid>>, exit |-> <<after.euid, after.egid>>,
     body |-> body, why |-> why, creators_done |-> l.creators_done,
     again |-> l.again /\ Again(p),
     caller |-> l.caller, task_id |-> l.task_id, tmpdir |-> l.tmpdir]

Log(p, op) ==
    sysops \cup {[p |-> p, cb |-> loc[p].cb, op |-> op,
                  euid |-> cred[p].euid, egid |-> cred[p].egid]}

(***************************************************************************)
(* slurm_spank_init, remote context: the options come back from the job    *)
(* environment.  (In the allocator context it registers the option table   *)
(* and touches nothing else.)                                              *)
(***************************************************************************)
(* an environment that carries none of the options *)
spank_getenv_unset(p, name) == [rc |-> ESPANK_ERROR, v |-> NULL]

spank_getenv(p, name) ==
    IF name \in DOMAIN spank[p].env /\ Len(spank[p].env[name]) < PATH_MAX
    THEN [rc |-> ESPANK_SUCCESS, v |-> spank[p].env[name]]
    ELSE [rc |-> ESPANK_ERROR, v |-> NULL]

slurm_spank_init(p) ==
    LET no_rm == spank_getenv(p, OPT_no_rm_tmpdir)
        no_step == spank_getenv(p, OPT_no_step_tmpdir)
        tmpdir == spank_getenv(p, OPT_tmpdir)
        shared == spank_getenv(p, OPT_use_shared_tmpdir)
        t == _opt_tmpdir(base_tmpdir[p], tmpdir.v)
        u == _opt_use_shared_tmpdir(should_create_on_shared[p],
                                    should_add_pernode_on_shared[p], shared.v)
    IN  /\ pc[p] = "start"
        /\ should_remove_tmpdir' =
             IF no_rm.rc = ESPANK_SUCCESS THEN Upd(should_remove_tmpdir, p, 0)
             ELSE should_remove_tmpdir
        /\ should_create_per_step_tmpdirs' =
             IF no_step.rc = ESPANK_SUCCESS THEN Upd(should_create_per_step_tmpdirs, p, 0)
             ELSE should_create_per_step_tmpdirs
        /\ base_tmpdir' =
             IF tmpdir.rc = ESPANK_SUCCESS THEN Upd(base_tmpdir, p, t.base_tmpdir)
             ELSE base_tmpdir
        /\ should_create_on_shared' =
             IF shared.rc = ESPANK_SUCCESS
             THEN Upd(should_create_on_shared, p, u.should_create_on_shared)
             ELSE should_create_on_shared
        /\ should_add_pernode_on_shared' =
             IF shared.rc = ESPANK_SUCCESS
             THEN Upd(should_add_pernode_on_shared, p, u.should_add_pernode_on_shared)
             ELSE should_add_pernode_on_shared
        /\ pc' = Upd(pc, p, "task_init")
        /\ UNCHANGED <<fs, spank, TMPDIR, cred, loc, history>>

(***************************************************************************)
(* slurm_spank_task_init                                                   *)
(***************************************************************************)
(* lines 613-624: restore privileges, export TMPDIR, return ESPANK_SUCCESS *)
Return_task_init(p, l, tmpdirlen, why) ==
    LET after == RestorePrivileges(cred[p], l.savedUid, l.savedGid, l.didSetUid, l.didSetGid)
    IN  /\ cred' = Upd(cred, p, after)
        /\ TMPDIR' = IF tmpdirlen > 0 THEN Upd(TMPDIR, p, l.tmpdir) ELSE TMPDIR
        /\ calls' = calls \cup
             {CallRecord(p, l, "task_init", ESPANK_SUCCESS,
                         IF tmpdirlen > 0 THEN "ok" ELSE "failed", why, after)}
        /\ pc' = Upd(pc, p, IF tmpdirlen > 0 THEN "running" ELSE "reaped")
        /\ loc' = Upd(loc, p, LocInit)

(* what the test of `while ( outTmpDir[i] == '/' )` can read at index i:   *)
(* a character of the path, its terminating NUL, or, past the NUL, a byte  *)
(* of the caller's uninitialised buffer (or the byte after the buffer)     *)
MaxStraySlash == 1

SlashAt(l) ==
    IF l.i < Len(l.tmpdir) THEN {l.tmpdir[l.i + 1] = "/"}
    ELSE IF l.i = Len(l.tmpdir) THEN {FALSE}
    ELSE IF l.stray < MaxStraySlash THEN {TRUE, FALSE}
    ELSE {FALSE}

(* the head of the while loop of _mktmpdir (line 360): another component   *)
(* to visit, or on to "Now ensure that final directory exists" (line 381)  *)
LoopHead(p, l) ==
    \E slash \in SlashAt(l) :
        /\ loc' = Upd(loc, p, [l EXCEPT !.final = ~slash,
                                        !.stray = IF slash /\ l.i > Len(l.tmpdir)
                                                  THEN l.stray + 1 ELSE l.stray])
        /\ pc' = Upd(pc, p, "mk_stat")
        /\ UNCHANGED <<cred, TMPDIR, calls>>

(* lines 377-378: put the '/' back and move i to the next '/' (the scan    *)
(* does not stop at the NUL; Len + 1 stands for any index past it)         *)
RECURSIVE ScanSlash(_, _)
ScanSlash(buf, i) ==
    IF i >= Len(buf) THEN Len(buf) + 1
    ELSE IF buf[i + 1] = "/" THEN i
    ELSE ScanSlash(buf, i + 1)

Advance(l) == [l EXCEPT !.i = ScanSlash(l.tmpdir, l.i + 1)]

(* the C string in outTmpDir at the stat / mkdir of the step under way *)
Component(l) == IF l.final THEN l.tmpdir ELSE CutAt(l.tmpdir, l.i)

(* _mktmpdir from the return of _sprint_tmpdir to the first stat *)
AfterSprint_mktmpdir(p, l, sp) ==
    IF sp.tmpdir_prefix = "none"
    THEN Return_task_init(p, l, -1,
                          IF sp.buffer = NULL THEN Why("base", "", FALSE)
                          ELSE Why("toolong", "", FALSE))
    ELSE IF sp.ret < 0 \/ sp.ret >= PATH_MAX
    THEN Return_task_init(p, l, -1, Why("toolong", "", FALSE))
    ELSE LoopHead(p, [l EXCEPT !.tmpdir = sp.buffer, !.prefix = sp.tmpdir_prefix,
                               !.tmpdirlen = sp.ret,
                               !.i = Len(PrefixText(p, sp.tmpdir_prefix))])

(***************************************************************************)
(* __cleanup_tmpdir                                                        *)
(***************************************************************************)
NextAfter(cb) == IF cb = "task_exit" THEN "exit" ELSE "done"

(* slurm_spank_task_exit returns __cleanup_tmpdir's code, slurm_spank_exit *)
(* drops it                                                                *)
CallbackRc(cb, rc) == IF cb = "task_exit" THEN rc ELSE ESPANK_SUCCESS

(* lines 699-703, with a failed stat check counted as a failure *)
Return_cleanup_absent_fails(p, l, rc, body) ==
    LET after == RestorePrivileges(cred[p], l.savedUid, l.savedGid, l.didSetUid, l.didSetGid)
    IN  /\ cred' = Upd(cred, p, after)
        /\ calls' = calls \cup {CallRecord(p, l, l.cb,
                         CallbackRc(l.cb, IF body = "absent" THEN ESPANK_ERROR ELSE rc),
                         body, NoWhy, after)}
        /\ pc' = Upd(pc, p, NextAfter(l.cb))
        /\ loc' = Upd(loc, p, LocInit)
        /\ UNCHANGED TMPDIR

(* lines 699-703 *)
Return_cleanup(p, l, rc, body) ==
    LET after == RestorePrivileges(cred[p], l.savedUid, l.savedGid, l.didSetUid, l.didSetGid)
    IN  /\ cred' = Upd(cred, p, after)
        /\ calls' = calls \cup {CallRecord(p, l, l.cb, CallbackRc(l.cb, rc), body, NoWhy, after)}
        /\ pc' = Upd(pc, p, NextAfter(l.cb))
        /\ loc' = Upd(loc, p, LocInit)
        /\ UNCHANGED TMPDIR

(* line 683 without its guard *)
MayRemove_always(p, job_step_id) == TRUE

(* the guard of line 683 *)
MayRemove(p, job_step_id) ==
    should_create_per_step_tmpdirs[p] = 1 \/ IsBatchOrExtern(job_step_id)

AfterSprint_cleanup(p, l, sp) ==
    IF sp.ret > 0 /\ MayRemove(p, spank[p].job_step_id)
    THEN /\ loc' = Upd(loc, p, [l EXCEPT !.tmpdir = sp.buffer, !.tmpdirlen = sp.ret])
         /\ pc' = Upd(pc, p, "cl_stat")
         /\ UNCHANGED <<cred, TMPDIR, calls>>
    ELSE Return_cleanup(p, l, ESPANK_SUCCESS, "skipped")

(* the caller of _sprint_tmpdir goes on once _get_base_tmpdir has returned *)
AfterGetBase(p, l, tag) ==
    IF l.caller = "mk"
    THEN AfterSprint_mktmpdir(p, l,
             _sprint_tmpdir(p, tag, PATH_MAX, spank[p].job_id, spank[p].job_step_id,
                            l.task_id, 0))
    ELSE AfterSprint_cleanup(p, l,
             _sprint_tmpdir(p, tag, PATH_MAX, spank[p].job_id, spank[p].job_step_id,
                            l.task_id, 1))

(* _get_base_tmpdir, one access() probe (lines 231-260) *)
get_base_tmpdir(p) ==
    /\ pc[p] = "access"
    /\ \E l \in {loc[p]} :
       \E r \in {SysAccess(fs, Node(p), cred[p].ruid, cred[p].rgid, PrefixText(p, l.path))} :
        /\ sysops' = Log(p, "access")
        /\ IF r = "OK" THEN AfterGetBase(p, l, l.path)
           ELSE IF NextCandidate(p, l.path) # "none"
           THEN /\ loc' = Upd(loc, p, [l EXCEPT !.path = NextCandidate(p, l.path),
                                                !.had_initial_error = 1])
                /\ UNCHANGED <<pc, cred, TMPDIR, calls>>
           ELSE AfterGetBase(p, l, "none")
        /\ UNCHANGED <<fs, spank, globals, created, removed, rmcalls>>

(* lines 560-611: the job's identity, "Drop privileges", into _mktmpdir *)
slurm_spank_task_init(p) ==
    LET d == DropPrivileges(cred[p], spank[p].uid, spank[p].gid)
        l == [LocInit EXCEPT !.cb = "task_init", !.savedUid = cred[p].euid,
                             !.savedGid = cred[p].egid, !.didSetUid = d.didSetUid,
                             !.didSetGid = d.didSetGid, !.drop = d.status,
                             !.caller = "mk", !.path = FirstCandidate(p),
                             !.task_id = spank[p].task_id, !.again = Again(p)]
    IN  /\ pc[p] = "task_init"
        /\ cred' = Upd(cred, p, d.cred)
        /\ IF d.status = "ok"
           THEN /\ loc' = Upd(loc, p, l)
                /\ pc' = Upd(pc, p, "access")
                /\ UNCHANGED calls
           ELSE /\ calls' = calls \cup
                     {CallRecord(p, l, "task_init", ESPANK_ERROR, "none", NoWhy, d.cred)}
                /\ pc' = Upd(pc, p, "reaped")
                /\ UNCHANGED loc
        /\ UNCHANGED <<fs, spank, TMPDIR, globals, created, removed, rmcalls, sysops>>

(* a stat that never finds the path *)
StatOk_never(st) == FALSE

(* `stat(outTmpDir, &finfo) == 0` of lines 363 and 382 *)
StatOk(st) == st.err = "OK"

(* _mktmpdir: the stat of a component (line 363) or of the final path (382) *)
mktmpdir_stat(p) ==
    /\ pc[p] = "mk_stat"
    /\ \E l \in {loc[p]} :
       \E st \in {SysStat(fs, Node(p), cred[p].euid, cred[p].egid, Component(l), TRUE)} :
        /\ sysops' = Log(p, "stat")
        /\ IF StatOk(st)
           THEN IF ~S_ISDIR(fs, Node(p), st)
                THEN Return_task_init(p, l, -1, Why("notdir", "", FALSE))
                ELSE IF l.final THEN Return_task_init(p, l, l.tmpdirlen, NoWhy)
                ELSE LoopHead(p, Advance(l))
           ELSE /\ pc' = Upd(pc, p, "mk_mkdir")
                /\ UNCHANGED <<loc, cred, TMPDIR, calls>>
        /\ UNCHANGED <<fs, spank, globals, created, removed, rmcalls>>

(* _mktmpdir: the mkdir of a component (lines 370-375; EEXIST passes) or   *)
(* of the final path (lines 389-392; every failure returns -1)             *)
mktmpdir_mkdir(p) ==
    /\ pc[p] = "mk_mkdir"
    /\ \E l \in {loc[p]} :
       \E m \in {SysMkdir(fs, Node(p), cred[p].euid, cred[p].egid, Component(l),
                          Mode0700, spank[p].umask)} :
        /\ sysops' = Log(p, "mkdir")
        /\ fs' = m.fs
        /\ created' = IF m.err = "OK"
                      THEN created \cup {[p |-> p, vol |-> VolOf(Node(p), m.path),
                                          path |-> m.path, euid |-> cred[p].euid,
                                          egid |-> cred[p].egid,
                                          mode |-> m.fs[<<VolOf(Node(p), m.path), m.path>>].mode]}
                      ELSE created
        /\ IF m.err = "OK" \/ (~l.final /\ m.err = "EEXIST")
           THEN IF l.final THEN Return_task_init(p, l, l.tmpdirlen, NoWhy)
                ELSE LoopHead(p, Advance(l))
           ELSE Return_task_init(p, l, -1,
                    Why("mkdir", m.err,
                        m.err = "EEXIST" /\ Get(fs, Node(p), m.path).kind = "dir"))
        /\ UNCHANGED <<spank, globals, removed, rmcalls>>

(* history: when a cleanup starts, has slurm_spank_task_init returned in   *)
(* every other process of the job?                                         *)
CreatorsDone(p) ==
    \A q \in Procs \ {p} :
        /\ pc[q] \notin {"start", "task_init", "mk_stat", "mk_mkdir"}
        /\ pc[q] = "access" => loc[q].caller # "mk"

(* lines 640-678: "Drop privileges", into _sprint_tmpdir *)
EnterCleanup(p, cb, local_task_id) ==
    LET d == DropPrivileges(cred[p], spank[p].uid, spank[p].gid)
        l == [LocInit EXCEPT !.cb = cb, !.savedUid = cred[p].euid,
                             !.savedGid = cred[p].egid, !.didSetUid = d.didSetUid,
                             !.didSetGid = d.didSetGid, !.drop = d.status,
                             !.caller = "cl", !.path = FirstCandidate(p),
                             !.task_id = local_task_id,
                             !.creators_done = CreatorsDone(p)]
    IN  /\ cred' = Upd(cred, p, d.cred)
        /\ IF d.status = "ok"
           THEN /\ loc' = Upd(loc, p, l)
                /\ pc' = Upd(pc, p, "access")
                /\ UNCHANGED calls
           ELSE /\ calls' = calls \cup
                     {CallRecord(p, l, cb, CallbackRc(cb, ESPANK_ERROR), "none", NoWhy, d.cred)}
                /\ pc' = Upd(pc, p, NextAfter(cb))
                /\ UNCHANGED loc

(* a callback that returns without calling __cleanup_tmpdir *)
ReturnUntouched(p, cb) ==
    /\ calls' = calls \cup
         {CallRecord(p, [LocInit EXCEPT !.savedUid = cred[p].euid, !.savedGid = cred[p].egid],
                     cb, ESPANK_SUCCESS, "skipped", NoWhy, cred[p])}
    /\ pc' = Upd(pc, p, NextAfter(cb))
    /\ UNCHANGED <<cred, loc>>

(* a task exit that looks at no flag *)
TaskExitRemoves_always(p) == TRUE

(* a task exit that looks at the removal flag alone *)
TaskExitRemoves_flag_only(p) == should_remove_tmpdir[p] = 1

(* the condition of lines 730-734 *)
TaskExitRemoves(p) ==
    IF WITH_SHARED_STORAGE(p)
    THEN should_remove_tmpdir[p] = 1 /\ should_add_pernode_on_shared[p] = 1
    ELSE should_remove_tmpdir[p] = 1

slurm_spank_task_exit(p) ==
    /\ pc[p] \in {"running", "reaped"}
    /\ IF TaskExitRemoves(p) /\ ~IsBatchOrExtern(spank[p].job_step_id)
       THEN EnterCleanup(p, "task_exit", spank[p].task_id)
       ELSE ReturnUntouched(p, "task_exit")
    /\ UNCHANGED <<fs, spank, TMPDIR, globals, created, removed, rmcalls, sysops>>

slurm_spank_exit(p) ==
    /\ pc[p] = "exit"
    /\ IF should_remove_tmpdir[p] = 1 /\ spank[p].remote
          /\ IsBatchOrExtern(spank[p].job_step_id)
       THEN EnterCleanup(p, "exit", SLURM_BATCH_SCRIPT)
       ELSE ReturnUntouched(p, "exit")
    /\ UNCHANGED <<fs, spank, TMPDIR, globals, created, removed, rmcalls, sysops>>

(* line 686: stat(tmpdir) and S_ISDIR *)
cleanup_stat(p) ==
    /\ pc[p] = "cl_stat"
    /\ \E l \in {loc[p]} :
       \E st \in {SysStat(fs, Node(p), cred[p].euid, cred[p].egid, l.tmpdir, TRUE)} :
        /\ sysops' = Log(p, "stat")
        /\ IF st.err = "OK" /\ S_ISDIR(fs, Node(p), st)
           THEN /\ pc' = Upd(pc, p, "fts_open")
                /\ UNCHANGED <<loc, cred, TMPDIR, calls>>
           ELSE Return_cleanup(p, l, ESPANK_SUCCESS, "absent")
        /\ UNCHANGED <<fs, spank, globals, created, removed, rmcalls>>

(***************************************************************************)
(* _rmdir_recurse: fts(3) with FTS_NOCHDIR | FTS_PHYSICAL | FTS_XDEV       *)
(***************************************************************************)
Item(path, info, dev) == [path |-> path, info |-> info, dev |-> dev]

RECURSIVE SetToSeq(_)
SetToSeq(S) == IF S = {} THEN <<>>
               ELSE LET x == CHOOSE y \in S : TRUE IN <<x>> \o SetToSeq(S \ {x})

(* fts_info of an entry as lstat sees it *)
InfoOf(e) == CASE e.kind = "dir" -> "D"
               [] e.kind = "link" -> "SL"
               [] OTHER -> "F"

(* the root item fts_open makes from lstat(path) *)
FtsRoot(f, node, uid, gid, path) ==
    LET st == SysStat(f, node, uid, gid, path, FALSE)
    IN  IF st.err # "OK" THEN Item(path, "NS", "")
        ELSE Item(st.path, InfoOf(Get(f, node, st.path)), Get(f, node, st.path).dev)

(* the children of a directory, each with the lstat taken when the         *)
(* directory is read                                                       *)
FtsChildren(f, node, uid, gid, dir) ==
    LET names == SetToSeq(Children(f, node, dir))
        mayStat == MayUse(Get(f, node, dir), uid, gid, "x")
    IN  [k \in 1..Len(names) |->
            IF mayStat
            THEN Item(names[k], InfoOf(Get(f, node, names[k])), Get(f, node, names[k]).dev)
            ELSE Item(names[k], "NS", "")]

(* a traversal that crosses into other file systems *)
FtsXdev_off(item_dev, fts_dev) == FALSE

(* FTS_XDEV: a directory on another device than the root is not descended *)
FtsXdev(item_dev, fts_dev) == item_dev # fts_dev

(* fts_read: the next item and the stack of directories being read *)
fts_read(f, node, uid, gid, ft) ==
    LET cur == ft.cur
        n == Len(ft.stack)
    IN  IF cur.info = "D"
        THEN IF FtsXdev(cur.dev, ft.dev)
             THEN [item |-> [cur EXCEPT !.info = "DP"], stack |-> ft.stack]
             ELSE IF ~( /\ SysStat(f, node, uid, gid, cur.path, FALSE).err = "OK"
                        /\ Get(f, node, cur.path).kind = "dir"
                        /\ MayUse(Get(f, node, cur.path), uid, gid, "r") )
             THEN [item |-> [cur EXCEPT !.info = "DNR"], stack |-> ft.stack]
             ELSE LET kids == FtsChildren(f, node, uid, gid, cur.path)
                  IN  IF kids = <<>>
                      THEN [item |-> [cur EXCEPT !.info = "DP"], stack |-> ft.stack]
                      ELSE [item |-> Head(kids),
                            stack |-> Append(ft.stack, [dir |-> cur, kids |-> Tail(kids)])]
        ELSE IF n = 0
        THEN [item |-> Item(NULL, "NULL", ""), stack |-> ft.stack]
        ELSE IF ft.stack[n].kids # <<>>
        THEN [item |-> Head(ft.stack[n].kids),
              stack |-> [ft.stack EXCEPT ![n] = [@ EXCEPT !.kids = Tail(@)]]]
        ELSE [item |-> [ft.stack[n].dir EXCEPT !.info = "DP"],
              stack |-> SubSeq(ft.stack, 1, n - 1)]

(* lines 420-442: fts_open, the first fts_read, the outer switch *)
rmdir_recurse_open(p) ==
    /\ pc[p] = "fts_open"
    /\ \E l \in {loc[p]} :
       \E root \in {FtsRoot(fs, Node(p), cred[p].euid, cred[p].egid, l.tmpdir)} :
        /\ sysops' = Log(p, "lstat")
        /\ rmcalls' = rmcalls \cup {[p |-> p, cb |-> l.cb, vol |-> VolOf(Node(p), root.path),
                                     path |-> root.path]}
        /\ IF root.info = "D"
           THEN /\ loc' = Upd(loc, p, [l EXCEPT !.fts =
                     [dev |-> root.dev, stack |-> <<>>, cur |-> root, top |-> root.path,
                      topuid |-> Get(fs, Node(p), root.path).uid]])
                /\ pc' = Upd(pc, p, "fts_read")
                /\ UNCHANGED <<cred, TMPDIR, calls>>
           ELSE Return_cleanup(p, l, ESPANK_SUCCESS, "ok")
        /\ UNCHANGED <<fs, spank, globals, created, removed>>

(* lines 443-475: one fts_read and the inner switch on what it returned *)
rmdir_recurse_body(p, l, it, stack, removing, rm) ==
    /\ sysops' = IF removing THEN Log(p, "remove") ELSE Log(p, "readdir")
    /\ fs' = IF removing THEN rm.fs ELSE fs
    /\ removed' = IF removing /\ rm.err = "OK"
                  THEN removed \cup {[p |-> p, cb |-> l.cb, vol |-> VolOf(Node(p), rm.path),
                                      path |-> rm.path, top |-> l.fts.top,
                                      topuid |-> l.fts.topuid,
                                      euid |-> cred[p].euid, egid |-> cred[p].egid]}
                  ELSE removed
    /\ IF it.info = "NULL"
       THEN Return_cleanup(p, l, IF l.rc # 0 THEN ESPANK_ERROR ELSE ESPANK_SUCCESS,
                           IF l.rc # 0 THEN "failed" ELSE "ok")
       ELSE /\ loc' = Upd(loc, p,
                 [l EXCEPT !.rc = IF it.info \in {"NS", "DNR", "ERR"}
                                     \/ (removing /\ rm.err # "OK")
                                  THEN -1 ELSE l.rc,
                           !.fts = [l.fts EXCEPT !.cur = it, !.stack = stack]])
            /\ UNCHANGED <<pc, cred, TMPDIR, calls>>
    /\ UNCHANGED <<spank, globals, created, rmcalls>>

(* the inner switch with FTS_DP left out of the case of line 464 *)
Removable_no_DP(info) == info \in {"F", "SL", "SLNONE", "DEFAULT"}

Removable(info) == info \in {"DP", "F", "SL", "SLNONE", "DEFAULT"}

rmdir_recurse_read(p) ==
    /\ pc[p] = "fts_read"
    /\ \E l \in {loc[p]} :
       \E nx \in {fts_read(fs, Node(p), cred[p].euid, cred[p].egid, l.fts)} :
       \E rm \in {IF Removable(nx.item.info)
                  THEN SysRemove(fs, Node(p), cred[p].euid, cred[p].egid, nx.item.path)
                  ELSE [err |-> "", fs |-> fs, path |-> NULL]} :
           rmdir_recurse_body(p, l, nx.item, nx.stack, Removable(nx.item.info), rm)

(***************************************************************************)
(* The task: while it runs it may leave a file in its TMPDIR               *)
(***************************************************************************)
TaskWrite(p) ==
    /\ pc[p] \in {"running", "o_running"}
    /\ TMPDIR[p] # NULL
    /\ \E dir \in {SysStat(fs, Node(p), spank[p].uid, spank[p].gid, TMPDIR[p], TRUE)} :
       \E file \in {Join(dir.path, S_f)} :
        /\ dir.err = "OK"
        /\ Get(fs, Node(p), dir.path).kind = "dir"
        /\ MayUse(Get(fs, Node(p), dir.path), spank[p].uid, spank[p].gid, "w")
        /\ MayUse(Get(fs, Node(p), dir.path), spank[p].uid, spank[p].gid, "x")
        /\ ~Has(fs, Node(p), file)
        /\ fs' = (<<VolOf(Node(p), file), file>> :>
                     Entry("file", spank[p].uid, spank[p].gid, Mode0644, NULL,
                           Get(fs, Node(p), dir.path).dev)) @@ fs
        /\ UNCHANGED <<spank, TMPDIR, globals, cred, pc, loc, history>>

(***************************************************************************)
(* auto_tmpdir.c, the plugin without the privilege handling: the           *)
(* directories are <base>/<job> and <base>/<job>/<step>, made in           *)
(* slurm_spank_user_init / slurm_spank_local_user_init and removed in      *)
(* slurm_spank_exit by _rmdir_recurse(path, match_uid).                    *)
(***************************************************************************)
auto_tmpdir_job_format(tmpdir, job_id) == tmpdir \o S_slash \o Dec(job_id)

auto_tmpdir_step_format(tmpdir, job_id, job_step_id) ==
    tmpdir \o S_slash \o Dec(job_id) \o S_slash \o Dec(job_step_id)

(* _get_base_tmpdir of auto_tmpdir.c *)
auto_tmpdir_get_base_tmpdir(p) ==
    IF base_tmpdir[p] # NULL THEN base_tmpdir[p] ELSE default_tmpdir_prefix

(* the test of lines 171 and 202 *)
JobDirOnly(p) ==
    should_create_per_step_tmpdirs[p] = 0 \/ spank[p].job_step_id = SLURM_BATCH_SCRIPT

(* the options of the spank_options table, as the option parser calls them *)
OPT_old_tmpdir == "tmpdir"
OPT_old_no_step_tmpdir == "no-step-tmpdir"
OPT_old_no_rm_tmpdir == "no-rm-tmpdir"

spank_options(p) ==
    /\ pc[p] = "o_opts"
    /\ base_tmpdir' =
         IF OPT_old_tmpdir \in DOMAIN spank[p].env
         THEN Upd(base_tmpdir, p, _opt_tmpdir(base_tmpdir[p], spank[p].env[OPT_old_tmpdir]).base_tmpdir)
         ELSE base_tmpdir
    /\ should_remove_tmpdir' =
         IF OPT_old_no_rm_tmpdir \in DOMAIN spank[p].env
         THEN Upd(should_remove_tmpdir, p, 0) ELSE should_remove_tmpdir
    /\ should_create_per_step_tmpdirs' =
         IF OPT_old_no_step_tmpdir \in DOMAIN spank[p].env
         THEN Upd(should_create_per_step_tmpdirs, p, 0) ELSE should_create_per_step_tmpdirs
    /\ pc' = Upd(pc, p, "o_init")
    /\ UNCHANGED <<fs, spank, TMPDIR, should_create_on_shared, should_add_pernode_on_shared,
                   cred, loc, history>>

(* lines 361-368 / 395-402: TMPDIR is set when _mktmpdir gave a length,    *)
(* and the callback returns 0 either way                                   *)
Return_user_init(p, l, tmpdirlen, why) ==
    /\ TMPDIR' = IF tmpdirlen > 0 THEN Upd(TMPDIR, p, l.tmpdir) ELSE TMPDIR
    /\ calls' = calls \cup
         {CallRecord(p, l, l.cb, 0, IF tmpdirlen > 0 THEN "ok" ELSE "failed", why, cred[p])}
    /\ pc' = Upd(pc, p, "o_running")
    /\ loc' = Upd(loc, p, LocInit)

(* lines 167-185: the full path is formatted first, for its length *)
Enter_mktmpdir(p, cb, full) ==
    IF full.len >= PATH_MAX
    THEN Return_user_init(p, [LocInit EXCEPT !.cb = cb, !.savedUid = cred[p].euid,
                                             !.savedGid = cred[p].egid],
                          -1, Why("toolong", "", FALSE))
    ELSE /\ loc' = Upd(loc, p, [LocInit EXCEPT !.cb = cb, !.savedUid = cred[p].euid,
                                               !.savedGid = cred[p].egid,
                                               !.tmpdir = auto_tmpdir_get_base_tmpdir(p),
                                               !.tmpdirlen = full.len])
         /\ pc' = Upd(pc, p, "o_base")
         /\ UNCHANGED <<TMPDIR, calls>>

FullPath(p) ==
    snprintf(PATH_MAX,
             IF JobDirOnly(p)
             THEN auto_tmpdir_job_format(auto_tmpdir_get_base_tmpdir(p), spank[p].job_id)
             ELSE auto_tmpdir_step_format(auto_tmpdir_get_base_tmpdir(p), spank[p].job_id,
                                          spank[p].job_step_id))

slurm_spank_user_init(p) ==
    /\ pc[p] = "o_init"
    /\ spank[p].remote
    /\ Enter_mktmpdir(p, "user_init", FullPath(p))
    /\ UNCHANGED <<fs, spank, globals, cred, created, removed, rmcalls, sysops>>

slurm_spank_local_user_init(p) ==
    /\ pc[p] = "o_init"
    /\ ~spank[p].remote
    /\ Enter_mktmpdir(p, "local_user_init", FullPath(p))
    /\ UNCHANGED <<fs, spank, globals, cred, created, removed, rmcalls, sysops>>

(* line 186: the base must be there and be a directory *)
auto_tmpdir_mktmpdir_base(p) ==
    /\ pc[p] = "o_base"
    /\ \E l \in {loc[p]} :
       \E st \in {SysStat(fs, Node(p), cred[p].euid, cred[p].egid, l.tmpdir, TRUE)} :
        /\ sysops' = Log(p, "stat")
        /\ IF st.err = "OK" /\ S_ISDIR(fs, Node(p), st)
           THEN /\ loc' = Upd(loc, p,
                     [l EXCEPT !.tmpdir = auto_tmpdir_job_format(l.tmpdir, spank[p].job_id),
                               !.prefix = l.tmpdir, !.final = FALSE, !.finfo = TRUE])
                /\ pc' = Upd(pc, p, "o_stat")
                /\ UNCHANGED <<TMPDIR, calls>>
           ELSE Return_user_init(p, l, -1, Why("base", "", FALSE))
        /\ UNCHANGED <<fs, spank, globals, cred, created, removed, rmcalls>>

(* lines 196-215: S_ISDIR(finfo.st_mode), then the step directory or done; *)
(* l.final tells the job directory (FALSE) from the step directory (TRUE)  *)
AfterFinfo(p, l, isdir) ==
    IF ~isdir THEN Return_user_init(p, l, -1, Why("notdir", "", FALSE))
    ELSE IF ~l.final /\ ~JobDirOnly(p)
    THEN /\ loc' = Upd(loc, p,
              [l EXCEPT !.tmpdir = auto_tmpdir_step_format(l.prefix, spank[p].job_id,
                                                           spank[p].job_step_id),
                        !.final = TRUE, !.finfo = isdir])
         /\ pc' = Upd(pc, p, "o_stat")
         /\ UNCHANGED <<TMPDIR, calls>>
    ELSE Return_user_init(p, l, Len(l.tmpdir), NoWhy)

(* lines 189 and 204 *)
auto_tmpdir_mktmpdir_stat(p) ==
    /\ pc[p] = "o_stat"
    /\ \E l \in {loc[p]} :
       \E st \in {SysStat(fs, Node(p), cred[p].euid, cred[p].egid, l.tmpdir, TRUE)} :
        /\ sysops' = Log(p, "stat")
        /\ IF st.err = "OK" THEN AfterFinfo(p, l, S_ISDIR(fs, Node(p), st))
           ELSE /\ pc' = Upd(pc, p, "o_mkdir")
                /\ UNCHANGED <<loc, TMPDIR, calls>>
        /\ UNCHANGED <<fs, spank, globals, cred, created, removed, rmcalls>>

(* lines 190-193 and 205-208 *)
auto_tmpdir_mktmpdir_mkdir(p) ==
    /\ pc[p] = "o_mkdir"
    /\ \E l \in {loc[p]} :
       \E m \in {SysMkdir(fs, Node(p), cred[p].euid, cred[p].egid, l.tmpdir,
                          Mode0700, spank[p].umask)} :
        /\ sysops' = Log(p, "mkdir")
        /\ fs' = m.fs
        /\ created' = IF m.err = "OK"
                      THEN created \cup {[p |-> p, vol |-> VolOf(Node(p), m.path),
                                          path |-> m.path, euid |-> cred[p].euid,
                                          egid |-> cred[p].egid,
                                          mode |-> m.fs[<<VolOf(Node(p), m.path), m.path>>].mode]}
                      ELSE created
        /\ IF m.err = "OK"
           THEN /\ pc' = Upd(pc, p, "o_restat")
                /\ UNCHANGED <<loc, TMPDIR, calls>>
           ELSE Return_user_init(p, l, -1,
                    Why("mkdir", m.err,
                        m.err = "EEXIST" /\ Get(fs, Node(p), m.path).kind = "dir"))
        /\ UNCHANGED <<spank, globals, cred, removed, rmcalls>>

(* lines 194 and 209: the stat after the mkdir; its result is not looked   *)
(* at, so when it fails finfo still holds what the last stat that          *)
(* succeeded put there                                                     *)
auto_tmpdir_mktmpdir_restat(p) ==
    /\ pc[p] = "o_restat"
    /\ \E l \in {loc[p]} :
       \E st \in {SysStat(fs, Node(p), cred[p].euid, cred[p].egid, l.tmpdir, TRUE)} :
        /\ sysops' = Log(p, "stat")
        /\ AfterFinfo(p, l, IF st.err = "OK" THEN S_ISDIR(fs, Node(p), st) ELSE l.finfo)
        /\ UNCHANGED <<fs, spank, globals, cred, created, removed, rmcalls>>

(* slurmstepd calls slurm_spank_user_init as the job's user and            *)
(* slurm_spank_exit "as root user after tasks have exited"; srun stays the *)
(* user who started it                                                     *)
TaskExited(p) ==
    /\ pc[p] = "o_running"
    /\ pc' = Upd(pc, p, "o_exit")
    /\ cred' = IF spank[p].remote
               THEN Upd(cred, p, Cred(RootUid, RootUid, RootUid, RootGid, RootGid, RootGid))
               ELSE cred
    /\ UNCHANGED <<fs, spank, TMPDIR, globals, loc, history>>

Return_exit(p, l, rc, body) ==
    /\ calls' = calls \cup {CallRecord(p, l, "exit", rc, body, NoWhy, cred[p])}
    /\ pc' = Upd(pc, p, "done")
    /\ loc' = Upd(loc, p, LocInit)

(* lines 420-432 and 443-448: which TMPDIR and which uid the removal gets *)
auto_tmpdir_slurm_spank_exit(p) ==
    /\ pc[p] = "o_exit"
    /\ \E l \in {[LocInit EXCEPT !.cb = "exit", !.savedUid = cred[p].euid,
                                 !.savedGid = cred[p].egid, !.tmpdir = TMPDIR[p],
                                 !.match_uid = IF spank[p].remote THEN spank[p].uid
                                               ELSE cred[p].euid]} :
        IF /\ should_remove_tmpdir[p] = 1
           /\ spank[p].remote \/ should_create_per_step_tmpdirs[p] = 1
           /\ TMPDIR[p] # NULL
        THEN /\ loc' = Upd(loc, p, l)
             /\ pc' = Upd(pc, p, "o_cl_stat")
             /\ UNCHANGED calls
        ELSE Return_exit(p, l, 0, "skipped")
    /\ UNCHANGED <<fs, spank, TMPDIR, globals, cred, created, removed, rmcalls, sysops>>

(* lines 433 and 451-453 *)
auto_tmpdir_exit_stat(p) ==
    /\ pc[p] = "o_cl_stat"
    /\ \E l \in {loc[p]} :
       \E st \in {SysStat(fs, Node(p), cred[p].euid, cred[p].egid, l.tmpdir, TRUE)} :
        /\ sysops' = Log(p, "stat")
        /\ IF st.err = "OK" /\ S_ISDIR(fs, Node(p), st)
           THEN /\ pc' = Upd(pc, p, "o_fts_open")
                /\ UNCHANGED <<loc, calls>>
           ELSE Return_exit(p, l, 0, "absent")
        /\ UNCHANGED <<fs, spank, TMPDIR, globals, cred, created, removed, rmcalls>>

(* _rmdir_recurse without the test of line 263 *)
OwnerAny(st_uid, match_uid) == TRUE

(* line 263 *)
OwnerMatches(st_uid, match_uid) == st_uid = match_uid

(* the return of _rmdir_recurse(path, match_uid) into slurm_spank_exit     *)
(* (lines 434-438 and 454-458)                                             *)
Return_rmdir_recurse(p, l, root, topuid, rc) ==
    /\ rmcalls' = rmcalls \cup {[p |-> p, cb |-> "exit", vol |-> VolOf(Node(p), root.path),
                                 path |-> root.path, info |-> root.info, topuid |-> topuid,
                                 match_uid |-> l.match_uid, rc |-> rc]}
    /\ Return_exit(p, l, IF rc # 0 THEN -1 ELSE 0, IF rc # 0 THEN "failed" ELSE "ok")

(* lines 240-263 and 297-300: fts_open, the first fts_read, the owner *)
auto_tmpdir_rmdir_recurse_open(p) ==
    /\ pc[p] = "o_fts_open"
    /\ \E l \in {loc[p]} :
       \E root \in {FtsRoot(fs, Node(p), cred[p].euid, cred[p].egid, l.tmpdir)} :
       \E topuid \in {IF root.info = "D" THEN Get(fs, Node(p), root.path).uid ELSE 0} :
        /\ sysops' = Log(p, "lstat")
        /\ IF root.info = "D"
           THEN IF OwnerMatches(topuid, l.match_uid)
                THEN /\ loc' = Upd(loc, p, [l EXCEPT !.fts =
                          [dev |-> root.dev, stack |-> <<>>, cur |-> root,
                           top |-> root.path, topuid |-> topuid]])
                     /\ pc' = Upd(pc, p, "o_fts_read")
                     /\ UNCHANGED <<calls, rmcalls>>
                ELSE Return_rmdir_recurse(p, l, root, topuid, -1)
           ELSE Return_rmdir_recurse(p, l, root, topuid, 0)
        /\ UNCHANGED <<fs, spank, TMPDIR, globals, cred, created, removed>>

(* lines 264-296: one fts_read and the switch on what it returned *)
auto_tmpdir_rmdir_recurse_body(p, l, it, stack, removing, rm) ==
    /\ sysops' = IF removing THEN Log(p, "remove") ELSE Log(p, "readdir")
    /\ fs' = IF removing THEN rm.fs ELSE fs
    /\ removed' = IF removing /\ rm.err = "OK"
                  THEN removed \cup {[p |-> p, cb |-> l.cb, vol |-> VolOf(Node(p), rm.path),
                                      path |-> rm.path, top |-> l.fts.top,
                                      topuid |-> l.fts.topuid, match_uid |-> l.match_uid,
                                      euid |-> cred[p].euid, egid |-> cred[p].egid]}
                  ELSE removed
    /\ IF it.info = "NULL"
       THEN Return_rmdir_recurse(p, l, [l.fts.cur EXCEPT !.path = l.fts.top, !.info = "D"],
                                 l.fts.topuid, l.rc)
       ELSE /\ loc' = Upd(loc, p,
                 [l EXCEPT !.rc = IF it.info \in {"NS", "DNR", "ERR"}
                                     \/ (removing /\ rm.err # "OK")
                                  THEN -1 ELSE l.rc,
                           !.fts = [l.fts EXCEPT !.cur = it, !.stack = stack]])
            /\ UNCHANGED <<pc, calls, rmcalls>>
    /\ UNCHANGED <<spank, TMPDIR, globals, cred, created>>

auto_tmpdir_rmdir_recurse_read(p) ==
    /\ pc[p] = "o_fts_read"
    /\ \E l \in {loc[p]} :
       \E nx \in {fts_read(fs, Node(p), cred[p].euid, cred[p].egid, l.fts)} :
       \E rm \in {IF Removable(nx.item.info)
                  THEN SysRemove(fs, Node(p), cred[p].euid, cred[p].egid, nx.item.path)
                  ELSE [err |-> "", fs |-> fs, path |-> NULL]} :
           auto_tmpdir_rmdir_recurse_body(p, l, nx.item, nx.stack,
                                          Removable(nx.item.info), rm)

(***************************************************************************)
(* The runs explored: the job, its processes, options, identities and the  *)
(* file systems they start on                                              *)
(***************************************************************************)
S_scratch == <<"/", "s", "c", "r", "a", "t", "c", "h">>
S_relative == <<"s", "c", "r", "a", "t", "c", "h">>
S_keep == <<"k", "e", "e", "p">>
S_l == <<"l">>
S_m == <<"m">>

Nodes == {"node07", "node08"}

(* what gethostname() gives on each node *)
HostnameOf(node) ==
    IF node = "node07"
    THEN <<"n", "o", "d", "e", "0", "7", ".", "c", "l", "u", "s", "t", "e", "r",
           ".", "e", "x", "a", "m", "p", "l", "e">>
    ELSE <<"n", "o", "d", "e", "0", "8">>

TheJob == U32(100)

NoEnv == [x \in {} |-> NULL]

(* the option sets a job can be submitted with *)
EnvOf(name) ==
    CASE name = "default" -> NoEnv
      [] name = "no_step" -> (OPT_no_step_tmpdir :> S_null)
      [] name = "no_rm" -> (OPT_no_rm_tmpdir :> S_null)
      [] name = "tmpdir" -> (OPT_tmpdir :> S_scratch)
      [] name = "bad_tmpdir" -> (OPT_tmpdir :> S_relative)
      [] name = "tmpdir_keep" -> (OPT_tmpdir :> Join(S_scratch, S_keep))
      [] name = "shared" -> (OPT_use_shared_tmpdir :> S_null)
      [] name = "pernode" -> (OPT_use_shared_tmpdir :> S_per_node)
      [] name = "pernode_no_step" ->
            (OPT_use_shared_tmpdir :> S_per_node) @@ (OPT_no_step_tmpdir :> S_null)
      [] name = "pernode_tmpdir" ->
            (OPT_use_shared_tmpdir :> S_per_node) @@ (OPT_tmpdir :> S_scratch)
      [] name = "pernode_tmpdir_no_step" ->
            (OPT_use_shared_tmpdir :> S_per_node) @@ (OPT_tmpdir :> S_scratch)
               @@ (OPT_no_step_tmpdir :> S_null)

(* the identities a process can enter a callback with *)
CredOf(name) ==
    CASE name = "root" -> Cred(RootUid, RootUid, RootUid, RootGid, RootGid, RootGid)
      [] name = "owner" -> Cred(JobUid, JobUid, JobUid, JobGid, JobGid, JobGid)
      [] name = "groupmate" -> Cred(OtherUid, OtherUid, OtherUid, JobGid, OtherGid, OtherGid)
      [] name = "stranger" -> Cred(OtherUid, OtherUid, OtherUid, OtherGid, OtherGid, OtherGid)

Dir(vol, path, uid, gid, mode) == <<vol, path>> :> Entry("dir", uid, gid, mode, NULL, vol)

File(vol, path, uid, gid, mode) == <<vol, path>> :> Entry("file", uid, gid, mode, NULL, vol)

Link(vol, path, uid, gid, target) ==
    <<vol, path>> :> Entry("link", uid, gid, Mode0777, target, vol)

Mounted(vol, path, kind, uid, gid, mode, dev) ==
    <<vol, path>> :> Entry(kind, uid, gid, mode, NULL, dev)

(* a directory of the job owner outside every job directory, with a file *)
KeepDir == Join(S_scratch, S_keep)

Outside ==
    Dir("node07", KeepDir, JobUid, JobGid, Mode0700)
       @@ File("node07", Join(KeepDir, S_f), JobUid, JobGid, Mode0644)

(* what a job can leave in its directory: a symbolic link l to the         *)
(* directory outside, and a directory m where another file system, holding *)
(* a file, is mounted                                                      *)
LinkedUnder(jobdir) ==
    Dir("node07", jobdir, JobUid, JobGid, Mode0700)
       @@ Link("node07", Join(jobdir, S_l), JobUid, JobGid, KeepDir)
       @@ Mounted("node07", Join(jobdir, S_m), "dir", JobUid, JobGid, Mode0700, "mnt")
       @@ Mounted("node07", Join(Join(jobdir, S_m), S_f), "file", JobUid, JobGid,
                  Mode0644, "mnt")
       @@ Outside

TmpDirs ==
    Dir("node07", default_tmpdir_prefix, RootUid, RootGid, Mode1777)
       @@ Dir("node08", default_tmpdir_prefix, RootUid, RootGid, Mode1777)

SharedDir == Dir("shared", shared_tmpdir_prefix, RootUid, RootGid, Mode1777)

ScratchDirs ==
    Dir("node07", S_scratch, RootUid, RootGid, Mode1777)
       @@ Dir("node08", S_scratch, RootUid, RootGid, Mode1777)

(* the file systems a run can start on *)
LayoutOf(name) ==
    CASE name = "clean" -> TmpDirs @@ SharedDir @@ ScratchDirs
      [] name = "no_scratch" -> TmpDirs @@ SharedDir
      [] name = "only_tmp" -> TmpDirs
      [] name = "keep_base" ->
            TmpDirs @@ ScratchDirs @@ Dir("node07", KeepDir, JobUid, JobGid, Mode0700)
      [] name = "no_base" -> Dir("node08", default_tmpdir_prefix, RootUid, RootGid, Mode1777)
      [] name = "foreign_jobdir" ->
            TmpDirs @@ SharedDir @@ ScratchDirs
               @@ Dir("node07", job_dir_sprintf_format(default_tmpdir_prefix, TheJob),
                      OtherUid, OtherGid, Mode0777)
      [] name = "file_jobdir" ->
            TmpDirs @@ SharedDir @@ ScratchDirs
               @@ File("node07", job_dir_sprintf_format(default_tmpdir_prefix, TheJob),
                       OtherUid, OtherGid, Mode0644)
      [] name = "scratch_on_07" ->
            TmpDirs @@ SharedDir @@ Dir("node07", S_scratch, RootUid, RootGid, Mode1777)
      [] name = "linked_jobdir" ->
            TmpDirs @@ SharedDir @@ ScratchDirs
               @@ LinkedUnder(job_dir_sprintf_format(default_tmpdir_prefix, TheJob))
      [] name = "link_top" ->
            TmpDirs @@ SharedDir @@ ScratchDirs @@ Outside
               @@ Link("node07", job_dir_sprintf_format(default_tmpdir_prefix, TheJob),
                       JobUid, JobGid, KeepDir)

Absent == [present |-> FALSE, node |-> "node07", step |-> U32(0), task |-> U32(0)]

Proc(node, step, task) == [present |-> TRUE, node |-> node, step |-> step, task |-> task]

(* which step of the job each process serves, and where *)
PlaceOf(name) ==
    CASE name = "real" -> ("p1" :> Proc("node07", U32(0), U32(2))) @@ ("p2" :> Absent)
      [] name = "batch" -> ("p1" :> Proc("node07", SLURM_BATCH_SCRIPT, U32(0))) @@ ("p2" :> Absent)
      [] name = "batch_extern" ->
            ("p1" :> Proc("node07", SLURM_BATCH_SCRIPT, U32(0)))
               @@ ("p2" :> Proc("node07", SLURM_EXTERN_CONT, U32(0)))
      [] name = "real_batch" ->
            ("p1" :> Proc("node07", U32(0), U32(2)))
               @@ ("p2" :> Proc("node07", SLURM_BATCH_SCRIPT, U32(0)))
      [] name = "two_steps" ->
            ("p1" :> Proc("node07", U32(0), U32(0)))
               @@ ("p2" :> Proc("node07", U32(1), U32(0)))
      [] name = "two_nodes" ->
            ("p1" :> Proc("node07", U32(0), U32(0)))
               @@ ("p2" :> Proc("node08", U32(0), U32(0)))
      [] name = "two_externs" ->
            ("p1" :> Proc("node07", SLURM_EXTERN_CONT, U32(0)))
               @@ ("p2" :> Proc("node08", SLURM_EXTERN_CONT, U32(0)))
      [] name = "same_task" ->
            ("p1" :> Proc("node07", U32(0), U32(2)))
               @@ ("p2" :> Proc("node07", U32(0), U32(2)))
      [] name = "batch_far_real" ->
            ("p1" :> Proc("node07", SLURM_BATCH_SCRIPT, U32(0)))
               @@ ("p2" :> Proc("node08", U32(0), U32(0)))

Scenario(place, env, who, layout) ==
    [place |-> place, env |-> env, who |-> who, layout |-> layout]

(* processes racing on a clean file system, as root *)
RaceScenarios ==
    {Scenario(pl, e, "root", "clean") :
        pl \in {"batch_extern", "real_batch", "two_steps", "two_nodes", "two_externs",
                "batch_far_real", "same_task"},
        e \in {"default", "no_step", "shared", "pernode", "pernode_no_step"}}

(* one process, every option set *)
OptionScenarios ==
    {Scenario(pl, e, "root", ly) :
        pl \in {"real", "batch"},
        e \in {"default", "no_step", "no_rm", "tmpdir", "bad_tmpdir", "shared", "pernode",
               "pernode_no_step", "pernode_tmpdir", "pernode_tmpdir_no_step"},
        ly \in {"clean", "no_scratch", "only_tmp", "no_base"}}

(* one process, the identities it can start with *)
IdentityScenarios ==
    {Scenario(pl, e, who, "clean") :
        pl \in {"real", "batch"}, e \in {"default", "pernode"},
        who \in {"owner", "groupmate", "stranger"}}

(* one or two processes on a file system where something is in the way *)
CollisionScenarios ==
    {Scenario(pl, e, "root", ly) :
        pl \in {"real", "batch", "real_batch"}, e \in {"default", "pernode_tmpdir", "no_step"},
        ly \in {"foreign_jobdir", "file_jobdir"}}

(* one process, and a job directory holding a link and a mount point, or   *)
(* being a link itself                                                     *)
LinkScenarios ==
    {Scenario(pl, e, "root", ly) :
        pl \in {"real", "batch"}, e \in {"default", "no_step"},
        ly \in {"linked_jobdir", "link_top"}}

(* a job on two nodes of which one only has the base the job asked for *)
NodeScenarios ==
    {Scenario(pl, e, "root", "scratch_on_07") :
        pl \in {"two_nodes", "two_externs"}, e \in {"tmpdir", "pernode_tmpdir"}}

Scenarios ==
    RaceScenarios \cup OptionScenarios \cup IdentityScenarios \cup CollisionScenarios
        \cup LinkScenarios \cup NodeScenarios

(* _opt_use_shared_tmpdir exists only in the build with shared storage,    *)
(* and slurm_spank_init calls it when the job carries the option: a job    *)
(* with that option runs on that build                                     *)
Builds(env) == IF OPT_use_shared_tmpdir \in DOMAIN EnvOf(env) THEN {TRUE} ELSE {TRUE, FALSE}

InitOf(sc, build) ==
    /\ fs = LayoutOf(sc.layout)
    /\ spank = [p \in Procs |->
                  [present |-> PlaceOf(sc.place)[p].present,
                   node |-> PlaceOf(sc.place)[p].node,
                   hostname |-> HostnameOf(PlaceOf(sc.place)[p].node),
                   remote |-> TRUE,
                   with_shared_storage |-> build,
                   job_id |-> TheJob,
                   job_step_id |-> PlaceOf(sc.place)[p].step,
                   task_id |-> PlaceOf(sc.place)[p].task,
                   uid |-> JobUid, gid |-> JobGid,
                   umask |-> Umask022,
                   env |-> EnvOf(sc.env)]]
    /\ TMPDIR = [p \in Procs |-> NULL]
    /\ base_tmpdir = [p \in Procs |-> NULL]
    /\ should_remove_tmpdir = [p \in Procs |-> 1]
    /\ should_create_per_step_tmpdirs = [p \in Procs |-> 1]
    /\ should_create_on_shared = [p \in Procs |-> 0]
    /\ should_add_pernode_on_shared = [p \in Procs |-> 0]
    /\ cred = [p \in Procs |-> CredOf(sc.who)]
    /\ pc = [p \in Procs |-> IF PlaceOf(sc.place)[p].present THEN "start" ELSE "done"]
    /\ loc = [p \in Procs |-> LocInit]
    /\ calls = {}
    /\ created = {}
    /\ removed = {}
    /\ rmcalls = {}
    /\ sysops = {}

Init == \E sc \in Scenarios : \E build \in Builds(sc.env) : InitOf(sc, build)

Next ==
    \E p \in Procs :
        \/ slurm_spank_init(p)
        \/ slurm_spank_task_init(p)
        \/ get_base_tmpdir(p)
        \/ mktmpdir_stat(p)
        \/ mktmpdir_mkdir(p)
        \/ TaskWrite(p)
        \/ slurm_spank_task_exit(p)
        \/ slurm_spank_exit(p)
        \/ cleanup_stat(p)
        \/ rmdir_recurse_open(p)
        \/ rmdir_recurse_read(p)

Spec == Init /\ [][Next]_vars

(***************************************************************************)
(* The runs of auto_tmpdir.c                                               *)
(***************************************************************************)
OldEnvOf(name) ==
    CASE name = "default" -> NoEnv
      [] name = "no_step" -> (OPT_old_no_step_tmpdir :> NULL)
      [] name = "no_rm" -> (OPT_old_no_rm_tmpdir :> NULL)
      [] name = "tmpdir" -> (OPT_old_tmpdir :> S_scratch)
      [] name = "bad_tmpdir" -> (OPT_old_tmpdir :> S_relative)

OldJobDir == auto_tmpdir_job_format(default_tmpdir_prefix, TheJob)

OldStepDir == auto_tmpdir_step_format(default_tmpdir_prefix, TheJob, U32(0))

OldLayoutOf(name) ==
    CASE name = "clean" -> TmpDirs @@ ScratchDirs
      [] name = "only_tmp" -> TmpDirs
      [] name = "foreign_jobdir" ->
            TmpDirs @@ Dir("node07", OldJobDir, OtherUid, OtherGid, Mode0777)
               @@ File("node07", Join(OldJobDir, S_keep), OtherUid, OtherGid, Mode0644)
      [] name = "foreign_stepdir" ->
            TmpDirs @@ Dir("node07", OldJobDir, JobUid, JobGid, Mode0700)
               @@ Dir("node07", OldStepDir, OtherUid, OtherGid, Mode0777)
               @@ File("node07", Join(OldStepDir, S_keep), OtherUid, OtherGid, Mode0644)
      [] name = "file_jobdir" ->
            TmpDirs @@ File("node07", OldJobDir, OtherUid, OtherGid, Mode0644)
      [] name = "linked_jobdir" -> TmpDirs @@ ScratchDirs @@ LinkedUnder(OldJobDir)
      [] name = "link_top" ->
            TmpDirs @@ ScratchDirs @@ Outside
               @@ Link("node07", OldJobDir, JobUid, JobGid, KeepDir)

OldScenario(place, env, remote, layout) ==
    [place |-> place, env |-> env, remote |-> remote, layout |-> layout]

OldRaceScenarios ==
    {OldScenario(pl, e, r, "clean") :
        pl \in {"real_batch", "two_steps"}, e \in {"default", "no_step"}, r \in BOOLEAN}

OldOptionScenarios ==
    {OldScenario(pl, e, r, ly) :
        pl \in {"real", "batch"},
        e \in {"default", "no_step", "no_rm", "tmpdir", "bad_tmpdir"},
        r \in BOOLEAN, ly \in {"clean", "only_tmp"}}

OldCollisionScenarios ==
    {OldScenario(pl, e, r, ly) :
        pl \in {"real", "batch"}, e \in {"default", "no_step"}, r \in BOOLEAN,
        ly \in {"foreign_jobdir", "foreign_stepdir", "file_jobdir", "linked_jobdir",
                "link_top"}}

OldScenarios == OldRaceScenarios \cup OldOptionScenarios \cup OldCollisionScenarios

InitOldOf(sc) ==
    /\ fs = OldLayoutOf(sc.layout)
    /\ spank = [p \in Procs |->
                  [present |-> PlaceOf(sc.place)[p].present,
                   node |-> PlaceOf(sc.place)[p].node,
                   hostname |-> HostnameOf(PlaceOf(sc.place)[p].node),
                   remote |-> sc.remote,
                   with_shared_storage |-> FALSE,
                   job_id |-> TheJob,
                   job_step_id |-> PlaceOf(sc.place)[p].step,
                   task_id |-> PlaceOf(sc.place)[p].task,
                   uid |-> JobUid, gid |-> JobGid,
                   umask |-> Umask022,
                   env |-> OldEnvOf(sc.env)]]
    /\ TMPDIR = [p \in Procs |-> NULL]
    /\ base_tmpdir = [p \in Procs |-> NULL]
    /\ should_remove_tmpdir = [p \in Procs |-> 1]
    /\ should_create_per_step_tmpdirs = [p \in Procs |-> 1]
    /\ should_create_on_shared = [p \in Procs |-> 0]
    /\ should_add_pernode_on_shared = [p \in Procs |-> 0]
    /\ cred = [p \in Procs |->
                 IF sc.remote THEN Cred(RootUid, JobUid, RootUid, RootGid, JobGid, RootGid)
                 ELSE CredOf("owner")]
    /\ pc = [p \in Procs |-> IF PlaceOf(sc.place)[p].present THEN "o_opts" ELSE "done"]
    /\ loc = [p \in Procs |-> LocInit]
    /\ calls = {}
    /\ created = {}
    /\ removed = {}
    /\ rmcalls = {}
    /\ sysops = {}

InitOld == \E sc \in OldScenarios : InitOldOf(sc)

NextOld ==
    \E p \in Procs :
        \/ spank_options(p)
        \/ slurm_spank_user_init(p)
        \/ slurm_spank_local_user_init(p)
        \/ auto_tmpdir_mktmpdir_base(p)
        \/ auto_tmpdir_mktmpdir_stat(p)
        \/ auto_tmpdir_mktmpdir_mkdir(p)
        \/ auto_tmpdir_mktmpdir_restat(p)
        \/ TaskWrite(p)
        \/ TaskExited(p)
        \/ auto_tmpdir_slurm_spank_exit(p)
        \/ auto_tmpdir_exit_stat(p)
        \/ auto_tmpdir_rmdir_recurse_open(p)
        \/ auto_tmpdir_rmdir_recurse_read(p)

SpecOld == InitOld /\ [][NextOld]_vars

(***************************************************************************)
(* _sprint_tmpdir and _get_base_tmpdir as functions: one call for each     *)
(* job id, step id, task id, ignore_pernode, option set, build, node and   *)
(* file system, made where slurm_spank_task_init would make it             *)
(***************************************************************************)
(* _get_base_tmpdir from `retry_test:` on (lines 231-260) *)
RECURSIVE _get_base_tmpdir(_, _, _)
_get_base_tmpdir(p, f, path) ==
    IF SysAccess(f, Node(p), cred[p].ruid, cred[p].rgid, PrefixText(p, path)) = "OK"
    THEN path
    ELSE IF NextCandidate(p, path) # "none"
    THEN _get_base_tmpdir(p, f, NextCandidate(p, path))
    ELSE "none"

(* lines 271-321, called with the job's identity from S_JOB_ID,            *)
(* S_JOB_STEPID and S_TASK_ID                                              *)
sprint_tmpdir_call(p) ==
    /\ pc[p] = "task_init"
    /\ \E ignore_pernode \in {0, 1} :
       \E tag \in {_get_base_tmpdir(p, fs, FirstCandidate(p))} :
       \E sp \in {_sprint_tmpdir(p, tag, PATH_MAX, spank[p].job_id, spank[p].job_step_id,
                                 spank[p].task_id, ignore_pernode)} :
        /\ calls' = calls \cup
             {[p |-> p, cb |-> "sprint", ignore_pernode |-> ignore_pernode, base |-> tag,
               ret |-> sp.ret, buffer |-> sp.buffer, tmpdir_prefix |-> sp.tmpdir_prefix]}
        /\ pc' = Upd(pc, p, "done")
    /\ UNCHANGED <<fs, spank, TMPDIR, globals, cred, loc, created, removed, rmcalls, sysops>>

(* p1 is the task the inputs are drawn for; p2 is a task of another real   *)
(* step of the same job on the same node                                   *)
InitFmt ==
    \E job \in {U32(0), U32(100), <<1, 0>>, <<65535, 65535>>} :
    \E step \in {U32(0), U32(12), SLURM_BATCH_SCRIPT, SLURM_EXTERN_CONT} :
    \E task \in {U32(0), U32(2)} :
    \E node \in Nodes :
    \E e \in {"default", "no_step", "no_rm", "tmpdir", "bad_tmpdir", "shared", "pernode",
              "pernode_no_step", "pernode_tmpdir", "pernode_tmpdir_no_step"} :
    \E build \in Builds(e) :
    \E ly \in {"clean", "no_scratch", "only_tmp", "no_base"} :
        /\ fs = LayoutOf(ly)
        /\ spank = [p \in Procs |->
              [present |-> TRUE, node |-> node, hostname |-> HostnameOf(node),
               remote |-> TRUE, with_shared_storage |-> build,
               job_id |-> job,
               job_step_id |-> IF p = "p1" THEN step ELSE U32(3),
               task_id |-> IF p = "p1" THEN task ELSE U32(1),
               uid |-> JobUid, gid |-> JobGid, umask |-> Umask022, env |-> EnvOf(e)]]
        /\ TMPDIR = [p \in Procs |-> NULL]
        /\ base_tmpdir = [p \in Procs |-> NULL]
        /\ should_remove_tmpdir = [p \in Procs |-> 1]
        /\ should_create_per_step_tmpdirs = [p \in Procs |-> 1]
        /\ should_create_on_shared = [p \in Procs |-> 0]
        /\ should_add_pernode_on_shared = [p \in Procs |-> 0]
        /\ cred = [p \in Procs |-> CredOf("root")]
        /\ pc = [p \in Procs |-> "start"]
        /\ loc = [p \in Procs |-> LocInit]
        /\ calls = {}
        /\ created = {}
        /\ removed = {}
        /\ rmcalls = {}
        /\ sysops = {}

NextFmt == \E p \in Procs : slurm_spank_init(p) \/ sprint_tmpdir_call(p)

SpecFmt == InitFmt /\ [][NextFmt]_vars

(***************************************************************************)
(* The options from the command line to the job: p1 is the submitting      *)
(* process (srun, sbatch), where the option callbacks are called for the   *)
(* options given, in the order and as often as the command line has them;  *)
(* the options then travel in the job environment to p2, a fresh process   *)
(* on the node, which reads them back in slurm_spank_init.                 *)
(***************************************************************************)
MaxApply == 2

S_bogus == <<"b", "o", "g", "u", "s">>

(* the calls made so far of the callback of one option *)
Applied(p, name) == {c \in calls : c.cb = "opt" /\ c.p = p /\ c.name = name}

(* lines 61-159: one option callback, called with the option's argument    *)
(* (NULL when the option was given without one); a callback that returns   *)
(* ESPANK_BAD_ARG ends the submission                                      *)
opt_callback(p) ==
    /\ pc[p] = "opts"
    /\ \E name \in DOMAIN spank[p].args :
       \E optarg \in {spank[p].args[name]} :
       \E t \in {_opt_tmpdir(base_tmpdir[p], optarg)} :
       \E u \in {_opt_use_shared_tmpdir(should_create_on_shared[p],
                                        should_add_pernode_on_shared[p], optarg)} :
       \E rc \in {CASE name = OPT_tmpdir -> t.rc
                     [] name = OPT_use_shared_tmpdir -> u.rc
                     [] OTHER -> ESPANK_SUCCESS} :
        /\ Cardinality(Applied(p, name)) < MaxApply
        /\ base_tmpdir' = IF name = OPT_tmpdir THEN Upd(base_tmpdir, p, t.base_tmpdir)
                          ELSE base_tmpdir
        /\ should_remove_tmpdir' = IF name = OPT_no_rm_tmpdir
                                   THEN Upd(should_remove_tmpdir, p, 0)
                                   ELSE should_remove_tmpdir
        /\ should_create_per_step_tmpdirs' =
              IF name = OPT_no_step_tmpdir THEN Upd(should_create_per_step_tmpdirs, p, 0)
              ELSE should_create_per_step_tmpdirs
        /\ should_create_on_shared' =
              IF name = OPT_use_shared_tmpdir
              THEN Upd(should_create_on_shared, p, u.should_create_on_shared)
              ELSE should_create_on_shared
        /\ should_add_pernode_on_shared' =
              IF name = OPT_use_shared_tmpdir
              THEN Upd(should_add_pernode_on_shared, p, u.should_add_pernode_on_shared)
              ELSE should_add_pernode_on_shared
        /\ calls' = calls \cup {[p |-> p, cb |-> "opt", name |-> name,
                                  n |-> Cardinality(Applied(p, name)), rc |-> rc]}
        /\ pc' = IF rc = ESPANK_SUCCESS THEN pc ELSE Upd(pc, p, "done")
    /\ UNCHANGED <<fs, spank, TMPDIR, cred, loc, created, removed, rmcalls, sysops>>

(* every option of the command line has been through its callback: each    *)
(* goes into the job environment under its prefixed name, with its         *)
(* argument or, given without one, with "(null)" (lines 146 and 515-534),  *)
(* and the process on the node starts                                      *)
spank_export(p) ==
    /\ pc[p] = "opts"
    /\ \A name \in DOMAIN spank[p].args : Applied(p, name) # {}
    /\ \E q \in Procs \ {p} :
        /\ pc[q] = "wait"
        /\ spank' = [spank EXCEPT ![q].env =
                        [name \in DOMAIN spank[p].args |->
                            IF spank[p].args[name] = NULL THEN S_null
                            ELSE spank[p].args[name]]]
        /\ pc' = [pc EXCEPT ![p] = "done", ![q] = "start"]
    /\ UNCHANGED <<fs, TMPDIR, globals, cred, loc, history>>

(* the command lines: --tmpdir with an absolute or a relative path or      *)
(* not given, --no-step-tmpdir, --no-rm-tmpdir, and, in the build that has *)
(* it, --use-shared-tmpdir without argument, with per-node, with the text  *)
(* "(null)" or with another text                                           *)
CommandLines(build) ==
    {a \cup b \cup c \cup d :
        a \in {{}} \cup {{<<OPT_tmpdir, v>>} : v \in {S_scratch, default_tmpdir_prefix,
                                                     S_slash, S_relative}},
        b \in {{}, {<<OPT_no_step_tmpdir, NULL>>}},
        c \in {{}, {<<OPT_no_rm_tmpdir, NULL>>}},
        d \in {{}} \cup (IF build
                         THEN {{<<OPT_use_shared_tmpdir, v>>} :
                                  v \in {NULL, S_per_node, S_null, S_bogus}}
                         ELSE {})}

InitOpt ==
    \E build \in BOOLEAN : \E line \in CommandLines(build) :
        /\ fs = LayoutOf("clean")
        /\ spank = [p \in Procs |->
              [present |-> TRUE, node |-> "node07", hostname |-> HostnameOf("node07"),
               remote |-> (p = "p2"), with_shared_storage |-> build,
               job_id |-> TheJob, job_step_id |-> U32(0), task_id |-> U32(0),
               uid |-> JobUid, gid |-> JobGid, umask |-> Umask022, env |-> NoEnv,
               args |-> IF p = "p1" THEN [o \in {x[1] : x \in line} |->
                                            (CHOOSE x \in line : x[1] = o)[2]]
                        ELSE NoEnv]]
        /\ TMPDIR = [p \in Procs |-> NULL]
        /\ base_tmpdir = [p \in Procs |-> NULL]
        /\ should_remove_tmpdir = [p \in Procs |-> 1]
        /\ should_create_per_step_tmpdirs = [p \in Procs |-> 1]
        /\ should_create_on_shared = [p \in Procs |-> 0]
        /\ should_add_pernode_on_shared = [p \in Procs |-> 0]
        /\ cred = [p \in Procs |-> IF p = "p1" THEN CredOf("owner") ELSE CredOf("root")]
        /\ pc = [p \in Procs |-> IF p = "p1" THEN "opts" ELSE "wait"]
        /\ loc = [p \in Procs |-> LocInit]
        /\ calls = {}
        /\ created = {}
        /\ removed = {}
        /\ rmcalls = {}
        /\ sysops = {}

NextOpt == \E p \in Procs : opt_callback(p) \/ spank_export(p) \/ slurm_spank_init(p)

SpecOpt == InitOpt /\ [][NextOpt]_vars

(***************************************************************************)
(* Both plugins side by side: the runs of part_000 and of auto_tmpdir.c in *)
(* which a directory is removed under a race, with something in the way,   *)
(* or holding a link and a mount point                                     *)
(***************************************************************************)
BothScenarios ==
    {sc \in RaceScenarios :
        /\ sc.place \in {"batch_extern", "real_batch", "two_externs"}
        /\ sc.env \in {"default", "no_step"}}
      \cup CollisionScenarios \cup LinkScenarios

InitBoth ==
    \/ \E sc \in BothScenarios : \E build \in Builds(sc.env) : InitOf(sc, build)
    \/ \E sc \in OldScenarios : InitOldOf(sc)

NextBoth == Next \/ NextOld

SpecBoth == InitBoth /\ [][NextBoth]_vars

(***************************************************************************)
(* The identity switch of slurm_spank_task_init (lines 592-615) and of     *)
(* __cleanup_tmpdir (lines 658-701) one system call at a time: the calls   *)
(* are logged with their position in the caller, and what is done between  *)
(* the drop and the restore (_mktmpdir, _rmdir_recurse) is left out.       *)
(***************************************************************************)
(* the statements in the order of lines 593-609 and 613-614 with the uid   *)
(* handled before the gid in the drop and after it in the restore          *)
SwitchOrder_uid_first(at) ==
    CASE at = "enter" -> "drop_uid"
      [] at = "drop_uid" -> "drop_gid"
      [] at = "drop_gid" -> "restore_gid"
      [] at = "restore_gid" -> "restore_uid"
      [] at = "restore_uid" -> "done"

(* the statements in the order of lines 593-609 and 613-614 (699-700) *)
SwitchOrder(at) ==
    CASE at = "enter" -> "drop_gid"
      [] at = "drop_gid" -> "drop_uid"
      [] at = "drop_uid" -> "restore_uid"
      [] at = "restore_uid" -> "restore_gid"
      [] at = "restore_gid" -> "done"

SwitchLog(p, l, phase, call, arg, ok) ==
    calls \cup {[p |-> p, cb |-> l.cb, phase |-> phase, call |-> call, arg |-> arg,
                 ok |-> ok, n |-> Cardinality({c \in calls : c.p = p})]}

(* lines 566-567 / 641-642: savedUid = geteuid(), savedGid = getegid() *)
switch_enter(p) ==
    /\ pc[p] = "start"
    /\ \E cb \in {"task_init", "task_exit", "exit"} :
          loc' = Upd(loc, p, [LocInit EXCEPT !.cb = cb, !.savedUid = cred[p].euid,
                                            !.savedGid = cred[p].egid])
    /\ pc' = Upd(pc, p, SwitchOrder("enter"))
    /\ UNCHANGED <<fs, spank, TMPDIR, globals, cred, history>>

(* lines 593-601 / 659-667 *)
drop_setegid(p) ==
    /\ pc[p] = "drop_gid"
    /\ \E l \in {loc[p]} :
          IF spank[p].gid # l.savedGid
          THEN IF MaySetegid(cred[p], spank[p].gid)
               THEN /\ cred' = Upd(cred, p, setegid(cred[p], spank[p].gid))
                    /\ calls' = SwitchLog(p, l, "drop", "setegid", spank[p].gid, TRUE)
                    /\ loc' = Upd(loc, p, [l EXCEPT !.didSetGid = 1])
                    /\ pc' = Upd(pc, p, SwitchOrder("drop_gid"))
               ELSE /\ cred' = Upd(cred, p, IF l.didSetUid = 1
                                            THEN seteuid(cred[p], l.savedUid) ELSE cred[p])
                    /\ calls' = SwitchLog(p, l, "drop", "setegid", spank[p].gid, FALSE)
                    /\ loc' = loc
                    /\ pc' = Upd(pc, p, "done")
          ELSE /\ pc' = Upd(pc, p, SwitchOrder("drop_gid"))
               /\ UNCHANGED <<cred, calls, loc>>
    /\ UNCHANGED <<fs, spank, TMPDIR, globals, created, removed, rmcalls, sysops>>

(* lines 602-609 / 668-675 *)
drop_seteuid(p) ==
    /\ pc[p] = "drop_uid"
    /\ \E l \in {loc[p]} :
          IF spank[p].uid # l.savedUid
          THEN IF MaySeteuid(cred[p], spank[p].uid)
               THEN /\ cred' = Upd(cred, p, seteuid(cred[p], spank[p].uid))
                    /\ calls' = SwitchLog(p, l, "drop", "seteuid", spank[p].uid, TRUE)
                    /\ loc' = Upd(loc, p, [l EXCEPT !.didSetUid = 1])
                    /\ pc' = Upd(pc, p, SwitchOrder("drop_uid"))
               ELSE /\ calls' = SwitchLog(p, l, "drop", "seteuid", spank[p].uid, FALSE)
                    /\ pc' = Upd(pc, p, "done")
                    /\ UNCHANGED <<cred, loc>>
          ELSE /\ pc' = Upd(pc, p, SwitchOrder("drop_uid"))
               /\ UNCHANGED <<cred, calls, loc>>
    /\ UNCHANGED <<fs, spank, TMPDIR, globals, created, removed, rmcalls, sysops>>

(* line 613 / 699 *)
restore_seteuid(p) ==
    /\ pc[p] = "restore_uid"
    /\ \E l \in {loc[p]} :
          IF l.didSetUid = 1
          THEN /\ cred' = Upd(cred, p, seteuid(cred[p], l.savedUid))
               /\ calls' = SwitchLog(p, l, "restore", "seteuid", l.savedUid,
                                     MaySeteuid(cred[p], l.savedUid))
          ELSE UNCHANGED <<cred, calls>>
    /\ pc' = Upd(pc, p, SwitchOrder("restore_uid"))
    /\ UNCHANGED <<fs, spank, TMPDIR, globals, loc, created, removed, rmcalls, sysops>>

(* line 614 / 700 *)
restore_setegid(p) ==
    /\ pc[p] = "restore_gid"
    /\ \E l \in {loc[p]} :
          IF l.didSetGid = 1
          THEN /\ cred' = Upd(cred, p, setegid(cred[p], l.savedGid))
               /\ calls' = SwitchLog(p, l, "restore", "setegid", l.savedGid,
                                     MaySetegid(cred[p], l.savedGid))
          ELSE UNCHANGED <<cred, calls>>
    /\ pc' = Upd(pc, p, SwitchOrder("restore_gid"))
    /\ UNCHANGED <<fs, spank, TMPDIR, globals, loc, created, removed, rmcalls, sysops>>

(* the identities a callback can be entered with: those of CredOf, and     *)
(* root already in the job's group                                         *)
SwitchCredOf(name) ==
    IF name = "root_in_group"
    THEN Cred(RootUid, RootUid, RootUid, JobGid, JobGid, JobGid)
    ELSE CredOf(name)

InitSwitch ==
    /\ fs = LayoutOf("clean")
    /\ spank = [p \in Procs |->
                  [present |-> TRUE,
                   node |-> PlaceOf("two_steps")[p].node,
                   hostname |-> HostnameOf(PlaceOf("two_steps")[p].node),
                   remote |-> TRUE,
                   with_shared_storage |-> FALSE,
                   job_id |-> TheJob,
                   job_step_id |-> PlaceOf("two_steps")[p].step,
                   task_id |-> PlaceOf("two_steps")[p].task,
                   uid |-> JobUid, gid |-> JobGid,
                   umask |-> Umask022,
                   env |-> EnvOf("default")]]
    /\ TMPDIR = [p \in Procs |-> NULL]
    /\ base_tmpdir = [p \in Procs |-> NULL]
    /\ should_remove_tmpdir = [p \in Procs |-> 1]
    /\ should_create_per_step_tmpdirs = [p \in Procs |-> 1]
    /\ should_create_on_shared = [p \in Procs |-> 0]
    /\ should_add_pernode_on_shared = [p \in Procs |-> 0]
    /\ cred \in [Procs -> {SwitchCredOf(w) : w \in {"root", "root_in_group", "owner",
                                                     "groupmate", "stranger"}}]
    /\ pc = [p \in Procs |-> "start"]
    /\ loc = [p \in Procs |-> LocInit]
    /\ calls = {}
    /\ created = {}
    /\ removed = {}
    /\ rmcalls = {}
    /\ sysops = {}

NextSwitch ==
    \E p \in Procs :
        \/ switch_enter(p)
        \/ drop_setegid(p)
        \/ drop_seteuid(p)
        \/ restore_seteuid(p)
        \/ restore_setegid(p)

SpecSwitch == InitSwitch /\ [][NextSwitch]_vars

(***************************************************************************)
(* _mktmpdir while the job's user changes the file system from another     *)
(* session: between the access probe of _get_base_tmpdir and the first     *)
(* stat of the walk the base is removed, and between the stat of a         *)
(* component (line 363 or 382) and its mkdir (line 370 or 389) a file is   *)
(* put where the directory is about to be made.                            *)
(***************************************************************************)
BaseRemoved(p) ==
    /\ pc[p] = "mk_stat"
    /\ ~loc[p].final
    /\ loc[p].prefix # "none"
    /\ loc[p].i = Len(PrefixText(p, loc[p].prefix))
    /\ \E rm \in {SysRemove(fs, Node(p), spank[p].uid, spank[p].gid, Component(loc[p]))} :
        /\ rm.err = "OK"
        /\ fs' = rm.fs
    /\ UNCHANGED <<spank, TMPDIR, globals, cred, pc, loc, history>>

FilePut(p) ==
    /\ pc[p] = "mk_mkdir"
    /\ \E r \in {Resolve(fs, Node(p), spank[p].uid, spank[p].gid, Component(loc[p]), FALSE)} :
        /\ r.err = "OK"
        /\ ~Has(fs, Node(p), r.path)
        /\ r.path # Root
        /\ Has(fs, Node(p), Parent(r.path))
        /\ MayUse(Get(fs, Node(p), Parent(r.path)), spank[p].uid, spank[p].gid, "w")
        /\ fs' = (<<VolOf(Node(p), r.path), r.path>> :>
                     Entry("file", spank[p].uid, spank[p].gid, Mode0644, NULL,
                           Get(fs, Node(p), Parent(r.path)).dev)) @@ fs
    /\ UNCHANGED <<spank, TMPDIR, globals, cred, pc, loc, history>>

WalkScenarios ==
    {Scenario(pl, e, "root", ly) :
        pl \in {"real", "batch"},
        e \in {"default", "no_step", "tmpdir", "tmpdir_keep"},
        ly \in {"clean", "keep_base", "file_jobdir"}}

InitWalk == \E sc \in WalkScenarios : \E build \in Builds(sc.env) : InitOf(sc, build)

NextWalk == Next \/ \E p \in Procs : BaseRemoved(p) \/ FilePut(p)

SpecWalk == InitWalk /\ [][NextWalk]_vars

(***************************************************************************)
(* Properties                                                              *)
(***************************************************************************)
Bases == {default_tmpdir_prefix, shared_tmpdir_prefix, S_scratch}

(* the directories of the job that stand above the step directories *)
JobLevelDirs ==
    {job_dir_sprintf_format(b, TheJob) : b \in Bases}
       \cup {pernode_job_dir_sprintf_format(b, TheJob, ShortHostname(HostnameOf(n))) :
                b \in Bases, n \in Nodes}

RealStep(p) == ~IsBatchOrExtern(spank[p].job_step_id)

InRmdirRecurse(p) == pc[p] \in {"fts_open", "fts_read"}

(* C1: processes racing through _mktmpdir all succeed: no call of          *)
(* slurm_spank_task_init loses its directory because mkdir answered        *)
(* EEXIST for a directory that another creator had just made, on any       *)
(* component, the final one included.                                      *)
C1_RacingCreatorsAllSucceed ==
    \A c \in calls :
        (c.cb = "task_init" /\ c.why.kind = "mkdir" /\ c.why.err = "EEXIST" /\ c.why.isdir)
            => c.body = "ok"

(* C2: in auto_tmpdir.c, _rmdir_recurse(path, match_uid) called on a       *)
(* directory whose owner is not match_uid returns -1, so that              *)
(* slurm_spank_exit returns -1, and has removed nothing at or beneath      *)
(* path: every entry ever removed was removed in a walk whose top          *)
(* directory belonged to match_uid.                                        *)
C2_OwnerMismatchRemovesNothing ==
    /\ \A r \in removed : r.topuid = r.match_uid
    /\ \A c \in rmcalls :
          (c.info = "D" /\ c.topuid # c.match_uid)
              => /\ c.rc = -1
                 /\ \A r \in removed : ~(r.p = c.p /\ r.vol = c.vol /\ r.top = c.path)
                 /\ \A k \in calls : (k.p = c.p /\ k.cb = "exit") => k.rc = -1

(* a removal was refused for the owner, and what the foreign directory     *)
(* held is still in it                                                     *)
C2_Witness ==
    \E c \in rmcalls :
        /\ c.info = "D"
        /\ c.topuid = OtherUid
        /\ c.match_uid = JobUid
        /\ c.rc = -1
        /\ pc[c.p] = "done"
        /\ <<c.vol, c.path>> \in DOMAIN fs
        /\ <<c.vol, Join(c.path, S_keep)>> \in DOMAIN fs

(* C3: __cleanup_tmpdir removes no entry of a tree whose top directory     *)
(* the file system reports as owned by someone other than the job's owner. *)
C3_ForeignTreeUntouched ==
    \A r \in removed : r.topuid = spank[r.p].uid

(* C4: no two processes are ever inside the recursive removal of the same  *)
(* job-level directory.                                                    *)
C4_OneRemoverPerJobDir ==
    \A p, q \in Procs :
        (/\ p # q
         /\ InRmdirRecurse(p)
         /\ InRmdirRecurse(q)
         /\ loc[p].tmpdir = loc[q].tmpdir
         /\ VolOf(Node(p), loc[p].tmpdir) = VolOf(Node(q), loc[q].tmpdir))
            => loc[p].tmpdir \notin JobLevelDirs

(* C5: a slurm_spank_task_init whose _mktmpdir failed returns an error.    *)
C5_FailedCreationReportsError ==
    \A c \in calls :
        (c.cb = "task_init" /\ c.body = "failed") => c.rc # ESPANK_SUCCESS

(* C6: when setegid succeeded and seteuid then failed, the callback        *)
(* returns with the effective gid it was entered with, and                 *)
(* slurm_spank_task_init / __cleanup_tmpdir report ESPANK_ERROR.           *)
C6_PartialSwitchRolledBack ==
    \A c \in calls :
        (c.drop = "seteuid_failed" /\ c.didSetGid = 1)
            => /\ c.exit[2] = c.entry[2]
               /\ c.cb \in {"task_init", "task_exit"} => c.rc = ESPANK_ERROR

(* C7: every file-system call of part_000 (access, stat, mkdir, lstat,     *)
(* readdir, remove) is made with the effective uid and gid of the job's    *)
(* owner, and a callback whose identity switch failed returns without      *)
(* entering _sprint_tmpdir, _mktmpdir or _rmdir_recurse.                   *)
C7_FileOpsUnderJobIdentity ==
    /\ \A o \in sysops : o.euid = spank[o.p].uid /\ o.egid = spank[o.p].gid
    /\ \A c \in calls : c.drop \in {"setegid_failed", "seteuid_failed"} => c.body = "none"
    /\ \A p \in Procs :
          pc[p] \in {"access", "mk_stat", "mk_mkdir", "cl_stat", "fts_open", "fts_read"}
              => cred[p].euid = spank[p].uid /\ cred[p].egid = spank[p].gid

(* a process that entered as root is removing entries as the job's owner   *)
C7_Witness ==
    \E o \in sysops :
        /\ o.op = "remove"
        /\ pc[o.p] = "fts_read"
        /\ cred[o.p].ruid = RootUid
        /\ cred[o.p].euid = JobUid
        /\ \E m \in sysops : m.p = o.p /\ m.op = "mkdir"

(* C8: a callback whose identity switch succeeded returns with the         *)
(* effective uid and gid it was entered with, whatever its body did.       *)
C8_IdentityRestored ==
    \A c \in calls : c.drop = "ok" => c.exit = c.entry

(* a callback that switched both ids and whose body failed has returned    *)
C8_Witness ==
    \E c \in calls :
        /\ c.drop = "ok"
        /\ c.didSetGid = 1
        /\ c.entry = <<RootUid, RootGid>>
        /\ c.body = "failed"
        /\ \E d \in calls : d.p = c.p /\ d.drop = "ok" /\ d.body = "ok" /\ d.cb # c.cb

(* C9: an entry removed at a job-level path was removed by slurm_spank_exit *)
(* of the batch or extern step, never by slurm_spank_task_exit.            *)
C9_TaskExitSparesJobDir ==
    \A r \in removed :
        r.path \in JobLevelDirs
            => r.cb = "exit" /\ IsBatchOrExtern(spank[r.p].job_step_id)

(* the task exit of a real step without per-step directories went through  *)
(* __cleanup_tmpdir, which left the job-level directory standing           *)
C9_Witness ==
    \E c \in calls :
        /\ c.cb = "task_exit"
        /\ c.drop = "ok"
        /\ c.body = "skipped"
        /\ RealStep(c.p)
        /\ should_create_per_step_tmpdirs[c.p] = 0
        /\ TMPDIR[c.p] \in JobLevelDirs
        /\ Has(fs, Node(c.p), TMPDIR[c.p])

(* C10: with removal and per-step directories enabled, once                *)
(* slurm_spank_task_exit has returned for a task of a real step, the step  *)
(* directory that task's slurm_spank_task_init made has been removed by    *)
(* that callback.                                                          *)
C10_TaskExitRemovesStepDir ==
    \A c \in calls :
        (/\ c.cb = "task_exit"
         /\ RealStep(c.p)
         /\ should_remove_tmpdir[c.p] = 1
         /\ should_create_per_step_tmpdirs[c.p] = 1
         /\ TMPDIR[c.p] # NULL
         /\ \E m \in created : m.p = c.p /\ m.path = TMPDIR[c.p])
            => \E r \in removed : r.p = c.p /\ r.cb = "task_exit" /\ r.path = TMPDIR[c.p]

(* C11: with removal enabled, once every process of the job is done and    *)
(* the slurm_spank_exit of a batch or extern step, started after every     *)
(* slurm_spank_task_init had returned, has come back without a failed      *)
(* removal, none of the directories the job's slurm_spank_task_init calls  *)
(* made is still there.                                                    *)
C11_ExitLeavesNothing ==
    \A c \in calls :
        (/\ c.cb = "exit"
         /\ IsBatchOrExtern(spank[c.p].job_step_id)
         /\ should_remove_tmpdir[c.p] = 1
         /\ c.drop = "ok"
         /\ c.body \in {"ok", "absent"}
         /\ c.creators_done
         /\ \A q \in Procs : pc[q] = "done")
            => \A m \in created : <<m.vol, m.path>> \notin DOMAIN fs

(* C12: the recursive remover removes nothing outside the tree it was      *)
(* started on: whatever leaves the file system is removed by a running     *)
(* _rmdir_recurse, lies at or under its top-level directory and on that    *)
(* directory's file system; a symbolic link goes as a link, and what it    *)
(* points to stays.                                                        *)
C12_RemoverStaysInTree ==
    [][ /\ \A k \in (DOMAIN fs) \ (DOMAIN fs') :
              \E m \in removed' \ removed : k = <<m.vol, m.path>>
        /\ \A m \in removed' \ removed :
              /\ pc[m.p] \in {"fts_read", "o_fts_read"}
              /\ PathUnder(m.path, m.top)
              /\ m.top = loc[m.p].fts.top
              /\ fs[<<m.vol, m.path>>].dev = loc[m.p].fts.dev
              /\ fs[<<m.vol, m.path>>].kind = "link" =>
                    \A k \in DOMAIN fs :
                        PathUnder(k[2], fs[<<m.vol, m.path>>].target) => k \in DOMAIN fs'
      ]_vars

(* a remover has gone through a job directory holding a link and a mount   *)
(* point: the link is gone, the directory it pointed to, the mount point   *)
(* and the file mounted there are still in place.                          *)
C12_Witness ==
    /\ \A p \in Procs : pc[p] = "done"
    /\ \E m \in removed : m.path = Join(m.top, S_l) /\ <<m.vol, m.path>> \notin DOMAIN fs
    /\ \E r \in rmcalls : <<"node07", Join(Join(r.path, S_m), S_f)>> \in DOMAIN fs
    /\ <<"node07", Join(KeepDir, S_f)>> \in DOMAIN fs

(* C13: with per-step directories enabled, two distinct real tasks of one  *)
(* job (another node, another step or another task id) that were both      *)
(* given a TMPDIR by slurm_spank_task_init were given different            *)
(* directories.                                                            *)
C13_DistinctTasksDistinctLeaves ==
    \A p \in Procs : \A q \in Procs \ {p} :
        (/\ RealStep(p) /\ RealStep(q)
         /\ should_create_per_step_tmpdirs[p] = 1
         /\ should_create_per_step_tmpdirs[q] = 1
         /\ <<Node(p), spank[p].job_step_id, spank[p].task_id>>
               # <<Node(q), spank[q].job_step_id, spank[q].task_id>>
         /\ TMPDIR[p] # NULL /\ TMPDIR[q] # NULL)
            => <<VolOf(Node(p), TMPDIR[p]), TMPDIR[p]>>
                  # <<VolOf(Node(q), TMPDIR[q]), TMPDIR[q]>>

(* C14: on shared storage without per-node sub-directories,                *)
(* slurm_spank_task_exit removes nothing: it returns without entering      *)
(* __cleanup_tmpdir, and no removal is ever made by it.                    *)
C14_SharedTaskExitRemovesNothing ==
    \A p \in Procs :
        (should_create_on_shared[p] = 1 /\ should_add_pernode_on_shared[p] = 0)
            => /\ \A m \in removed : ~(m.p = p /\ m.cb = "task_exit")
               /\ \A r \in rmcalls : ~(r.p = p /\ r.cb = "task_exit")
               /\ \A c \in calls : (c.p = p /\ c.cb = "task_exit") => c.body = "skipped"
               /\ loc[p].cb # "task_exit"

(* the task of a real step on shared storage without per-node              *)
(* sub-directories has exited, removal being enabled, and the step         *)
(* directory its slurm_spank_task_init made is still there.                *)
C14_Witness ==
    \E c \in calls :
        /\ c.cb = "task_exit"
        /\ RealStep(c.p)
        /\ should_remove_tmpdir[c.p] = 1
        /\ should_create_per_step_tmpdirs[c.p] = 1
        /\ should_create_on_shared[c.p] = 1
        /\ should_add_pernode_on_shared[c.p] = 0
        /\ \E m \in created :
              /\ m.p = c.p
              /\ m.vol = "shared"
              /\ m.path = TMPDIR[c.p]
              /\ <<m.vol, m.path>> \in DOMAIN fs

(* C15: with automatic removal disabled (--no-rm-tmpdir) no callback of    *)
(* the process removes anything: no _rmdir_recurse is started, no remove() *)
(* is made, and every directory its task-start callback made stays.        *)
C15_NoRemovalWhenDisabled ==
    \A p \in Procs :
        should_remove_tmpdir[p] = 0
            => /\ \A m \in removed : m.p # p
               /\ \A r \in rmcalls : r.p # p
               /\ \A o \in sysops : o.p = p => o.op # "remove"
               /\ \A m \in created : m.p = p => <<m.vol, m.path>> \in DOMAIN fs

(* a job submitted with --no-rm-tmpdir has gone through task start, task   *)
(* exit and step exit, and the directory made for it is still there.       *)
C15_Witness ==
    \E p \in Procs :
        /\ should_remove_tmpdir[p] = 0
        /\ pc[p] = "done"
        /\ \E c \in calls : c.p = p /\ c.cb = "exit"
        /\ \E m \in created : m.p = p /\ m.path = TMPDIR[p] /\ <<m.vol, m.path>> \in DOMAIN fs

(* C16: _mktmpdir is idempotent: called again for the same task, under the *)
(* same options and identity, after a call that succeeded and while what   *)
(* that call made is in place, it succeeds with the same path and makes    *)
(* no directory.                                                           *)
C16_MktmpdirIdempotent ==
    \A c \in calls :
        (c.cb = "task_init" /\ c.drop = "ok" /\ c.again)
            => /\ c.body = "ok"
               /\ \E q \in Procs \ {c.p} : TMPDIR[q] # NULL /\ TMPDIR[q] = TMPDIR[c.p]
               /\ \A m \in created : m.p # c.p

(* the second call has returned for a task of a real step whose directory  *)
(* lies two levels under the base.                                         *)
C16_Witness ==
    \E c \in calls :
        /\ c.cb = "task_init" /\ c.drop = "ok" /\ c.again
        /\ RealStep(c.p)
        /\ should_create_per_step_tmpdirs[c.p] = 1
        /\ TMPDIR[c.p] # NULL
        /\ \E m \in created : m.p # c.p /\ m.path = TMPDIR[c.p]

(* C17: _sprint_tmpdir is a function of its arguments and the options      *)
(* alone: two calls with the same job id, step id, task id and             *)
(* ignore_pernode, under the same options (and, where the host name goes   *)
(* into the path, on the same host), that both gave a path gave the same   *)
(* path, whatever the file system held at each call.                       *)
C17_SprintIsPure ==
    \A c \in calls : \A d \in calls :
        (/\ c.tmpdir # NULL /\ d.tmpdir # NULL
         /\ c.caller = d.caller
         /\ c.task_id = d.task_id
         /\ spank[c.p].job_id = spank[d.p].job_id
         /\ spank[c.p].job_step_id = spank[d.p].job_step_id
         /\ base_tmpdir[c.p] = base_tmpdir[d.p]
         /\ should_create_per_step_tmpdirs[c.p] = should_create_per_step_tmpdirs[d.p]
         /\ should_create_on_shared[c.p] = should_create_on_shared[d.p]
         /\ should_add_pernode_on_shared[c.p] = should_add_pernode_on_shared[d.p]
         /\ (spank[c.p].hostname = spank[d.p].hostname
                \/ should_add_pernode_on_shared[c.p] = 0))
            => c.tmpdir = d.tmpdir

(***************************************************************************)
(* What the calls of _sprint_tmpdir are measured against                   *)
(***************************************************************************)
Contains(s, sub) ==
    \E i \in 1..(Len(s) - Len(sub) + 1) : SubSeq(s, i, i + Len(sub) - 1) = sub

(* the node's host name up to its first '.' *)
ShortNameOf(node) ==
    IF node = "node07" THEN <<"n", "o", "d", "e", "0", "7">>
    ELSE <<"n", "o", "d", "e", "0", "8">>

Sentinels == {SLURM_BATCH_SCRIPT, SLURM_EXTERN_CONT}

SprintCalls == {c \in calls : c.cb = "sprint" /\ c.ret > 0}

(* base/job_<job> *)
JobLevel(c) == PrefixText(c.p, c.tmpdir_prefix) \o S_job \o Dec(spank[c.p].job_id)

(* step_<step>.<task> *)
StepSegment(c) ==
    S_step \o Dec(spank[c.p].job_step_id) \o S_dot \o Dec(spank[c.p].task_id)

(* the base in use is the shared prefix and per-node was asked for *)
PerNodeInEffect(c) ==
    c.tmpdir_prefix = "shared" /\ should_add_pernode_on_shared[c.p] = 1

ExpectedPath(c, pernode) ==
    IF should_create_per_step_tmpdirs[c.p] = 0 \/ spank[c.p].job_step_id \in Sentinels
    THEN IF pernode /\ c.ignore_pernode = 0
         THEN JobLevel(c) \o S_slash \o ShortNameOf(Node(c.p))
         ELSE JobLevel(c)
    ELSE IF pernode
         THEN JobLevel(c) \o S_slash \o ShortNameOf(Node(c.p)) \o StepSegment(c)
         ELSE JobLevel(c) \o StepSegment(c)

Candidates(p) ==
    (IF base_tmpdir[p] # NULL THEN <<"base">> ELSE <<>>)
       \o (IF should_create_on_shared[p] = 1 THEN <<"shared">> ELSE <<>>)
       \o <<"default">>

Accessible(p, tag) ==
    SysAccess(fs, Node(p), cred[p].ruid, cred[p].rgid, PrefixText(p, tag)) = "OK"

Policy(p) ==
    <<base_tmpdir[p], should_remove_tmpdir[p], should_create_per_step_tmpdirs[p],
      should_create_on_shared[p], should_add_pernode_on_shared[p]>>

(* C21: the options round-trip: once the process on the node has read the  *)
(* job environment in slurm_spank_init, its base_tmpdir and its four flags *)
(* equal those the option callbacks left in the submitting process.        *)
C21_PolicyRoundTrip ==
    pc["p2"] = "task_init" => Policy("p2") = Policy("p1")

(* the round trip of a command line with --tmpdir=/scratch,                *)
(* --no-step-tmpdir, --no-rm-tmpdir and --use-shared-tmpdir=per-node.      *)
C21_Witness ==
    /\ pc["p2"] = "task_init"
    /\ Policy("p2") = <<S_scratch, 0, 0, 1, 1>>
    /\ DOMAIN spank["p2"].env =
          {OPT_tmpdir, OPT_no_step_tmpdir, OPT_no_rm_tmpdir, OPT_use_shared_tmpdir}
    /\ spank["p2"].env[OPT_no_rm_tmpdir] = S_null

(* the options whose callback has returned ESPANK_SUCCESS at least once *)
Accepted(p) == {c.name : c \in {d \in calls : d.cb = "opt" /\ d.p = p /\ d.rc = ESPANK_SUCCESS}}

(* C22: applying the option callbacks is idempotent and independent of the *)
(* order: whatever the order and the number of the calls made, the         *)
(* base_tmpdir and the flags are those of the set of options applied.      *)
C22_CallbacksIdempotentAnyOrder ==
    Policy("p1") =
        <<IF OPT_tmpdir \in Accepted("p1") THEN spank["p1"].args[OPT_tmpdir] ELSE NULL,
          IF OPT_no_rm_tmpdir \in Accepted("p1") THEN 0 ELSE 1,
          IF OPT_no_step_tmpdir \in Accepted("p1") THEN 0 ELSE 1,
          IF OPT_use_shared_tmpdir \in Accepted("p1") THEN 1 ELSE 0,
          IF OPT_use_shared_tmpdir \in Accepted("p1")
                /\ spank["p1"].args[OPT_use_shared_tmpdir] = S_per_node THEN 1 ELSE 0>>

(* all four callbacks have been called twice each.                         *)
C22_Witness ==
    /\ DOMAIN spank["p1"].args =
          {OPT_tmpdir, OPT_no_step_tmpdir, OPT_no_rm_tmpdir, OPT_use_shared_tmpdir}
    /\ \A name \in DOMAIN spank["p1"].args : Cardinality(Applied("p1", name)) = 2
    /\ Accepted("p1") = DOMAIN spank["p1"].args

(***************************************************************************)
(* C23: a recursive removal whose top-level path does not exist returns    *)
(* success and changes nothing: in __cleanup_tmpdir (the stat check of     *)
(* line 686), in _rmdir_recurse of part_000 (the FTS_NS root, lines        *)
(* 431-438) and in _rmdir_recurse of auto_tmpdir.c (lines 251-258), the    *)
(* step taken on an absent path leaves the file system and the removals    *)
(* as they were and the call ends without a failure.                       *)
(***************************************************************************)
TopAbsent(p) ==
    SysStat(fs, Node(p), cred[p].euid, cred[p].egid, loc[p].tmpdir, FALSE).err = "ENOENT"

RemovalEntry == {"cl_stat", "fts_open", "o_cl_stat", "o_fts_open"}

C23_AbsentTopIsSuccess ==
    [][\A p \in Procs :
          (pc[p] \in RemovalEntry /\ pc'[p] # pc[p] /\ TopAbsent(p))
             => /\ fs' = fs
                /\ removed' = removed
                /\ \E c \in calls' \ calls :
                      c.p = p /\ c.rc = ESPANK_SUCCESS /\ c.body # "failed"]_vars

(* _rmdir_recurse was called, by either plugin, on a path that another     *)
(* process had removed after the stat check, and it returned               *)
C23_Witness ==
    \E c \in calls :
          /\ c.cb \in {"task_exit", "exit"} /\ c.body = "ok"
          /\ \E r \in rmcalls : r.p = c.p /\ r.cb = c.cb /\ ~Has(fs, Node(c.p), r.path)
          /\ ~\E r \in removed : r.p = c.p

(***************************************************************************)
(* C24: in _rmdir_recurse (both plugins) a failure to remove one entry     *)
(* does not stop the traversal: after every item that fts_read returns the *)
(* loop goes on to the next one, a removal is attempted for every item the *)
(* traversal returns in post-order or as a non-directory, and the call     *)
(* returns a failure exactly when a visit or a removal failed or, in       *)
(* auto_tmpdir.c, the owner test of the top directory refused.             *)
(***************************************************************************)
InTraversal == {"fts_read", "o_fts_read"}

Stepped(p) == pc'[p] # pc[p] \/ loc'[p] # loc[p]

NextItem(p) == fts_read(fs, Node(p), cred[p].euid, cred[p].egid, loc[p].fts).item

RemoveOf(p, path) == SysRemove(fs, Node(p), cred[p].euid, cred[p].egid, path)

ToRemove(info) == info \in {"DP", "F", "SL", "SLNONE", "DEFAULT"}

ItemFailed(p, it) ==
    \/ it.info \in {"NS", "DNR", "ERR"}
    \/ ToRemove(it.info) /\ RemoveOf(p, it.path).err # "OK"

OwnerRefused(p) ==
    /\ pc[p] = "o_fts_open"
    /\ \E root \in {FtsRoot(fs, Node(p), cred[p].euid, cred[p].egid, loc[p].tmpdir)} :
          root.info = "D" /\ Get(fs, Node(p), root.path).uid # loc[p].match_uid

C24_FailureDoesNotStopTraversal ==
    [][\A p \in Procs :
          /\ (pc[p] \in InTraversal /\ Stepped(p)) =>
                \E it \in {NextItem(p)} :
                   IF it.info = "NULL"
                   THEN \A c \in calls' \ calls : c.body = "failed" <=> loc[p].rc # 0
                   ELSE /\ pc'[p] = pc[p]
                        /\ loc'[p].rc # 0 <=> (loc[p].rc # 0 \/ ItemFailed(p, it))
                        /\ fs' = IF ToRemove(it.info) THEN RemoveOf(p, it.path).fs ELSE fs
          /\ (pc[p] \in {"fts_open", "o_fts_open"} /\ Stepped(p)) =>
                \A c \in calls' \ calls : c.body = "failed" <=> OwnerRefused(p)]_vars

(* a traversal in which something has failed is about to remove its next   *)
(* entry, and the removal will succeed                                     *)
C24_Witness ==
    \E p \in Procs :
       /\ pc[p] \in InTraversal
       /\ loc[p].rc # 0
       /\ ToRemove(NextItem(p).info)
       /\ RemoveOf(p, NextItem(p).path).err = "OK"

(***************************************************************************)
(* C25: every directory _mktmpdir creates (both plugins) is created with   *)
(* mode 0700 or a subset of it: in every reachable state neither the mode  *)
(* a directory was created with nor the mode it has now grants anything to *)
(* the group or to others.                                                 *)
(***************************************************************************)
OwnerOnly(mode) == \A b \in mode : b[1] = "u"

C25_CreatedOwnerOnly ==
    \A c \in created :
       /\ OwnerOnly(c.mode)
       /\ (<<c.vol, c.path>> \in DOMAIN fs /\ fs[<<c.vol, c.path>>].kind = "dir")
             => OwnerOnly(fs[<<c.vol, c.path>>].mode)

(* a job-level and a per-step directory have been created and are there *)
C25_Witness ==
    \E c, d \in created :
       /\ c.path # d.path
       /\ PathUnder(d.path, c.path)
       /\ <<c.vol, c.path>> \in DOMAIN fs
       /\ <<d.vol, d.path>> \in DOMAIN fs
       /\ c.mode # {}

(***************************************************************************)
(* C26: the identity switch is ordered.  On every path through             *)
(* slurm_spank_task_init and __cleanup_tmpdir, a setegid of the drop comes *)
(* before the seteuid of the drop, a seteuid of the restore comes before   *)
(* the setegid of the restore, and the drop comes before the restore.      *)
(***************************************************************************)
SwitchCalls == {c \in calls : c.cb \in {"task_init", "task_exit", "exit"} /\ "call" \in DOMAIN c}

C26_SwitchIsOrdered ==
    \A a, b \in SwitchCalls :
       a.p = b.p =>
          /\ (a.phase = "drop" /\ b.phase = "drop" /\ a.call = "setegid" /\ b.call = "seteuid")
                => a.n < b.n
          /\ (a.phase = "restore" /\ b.phase = "restore"
                 /\ a.call = "seteuid" /\ b.call = "setegid") => a.n < b.n
          /\ (a.phase = "drop" /\ b.phase = "restore") => a.n < b.n

(* the decomposed drop ends where DropPrivileges ends *)
SwitchAgrees ==
    \A p \in Procs :
       pc[p] = "restore_uid" =>
          \E d \in {DropPrivileges([cred[p] EXCEPT !.euid = loc[p].savedUid,
                                                  !.egid = loc[p].savedGid],
                                    spank[p].uid, spank[p].gid)} :
             d.status = "ok" /\ d.cred = cred[p]
                /\ d.didSetUid = loc[p].didSetUid /\ d.didSetGid = loc[p].didSetGid

(* a callback entered as root has switched both ids and restored both *)
C26_Witness ==
    \E p \in Procs :
       /\ pc[p] = "done"
       /\ Cardinality({c \in SwitchCalls : c.p = p /\ c.ok}) = 4
       /\ cred[p].euid = RootUid

(***************************************************************************)
(* C27: a component below the base that exists and is not a directory when *)
(* _mktmpdir reaches it, be it there from the start or put there by        *)
(* another process between the stat and the mkdir, makes _mktmpdir fail:   *)
(* the stat that finds it returns -1 at once; the mkdir that meets it      *)
(* creates nothing, and returns -1 at once for the final path; and TMPDIR  *)
(* is exported only when every component below the base is a directory.    *)
(***************************************************************************)
BaseOf(p) == PrefixText(p, loc[p].prefix)

BelowBase(p, path) == path # BaseOf(p) /\ PathUnder(path, BaseOf(p))

NonDirectory(f, p, path) ==
    \E st \in {SysStat(f, Node(p), spank[p].uid, spank[p].gid, path, TRUE)} :
       st.err = "OK" /\ Get(f, Node(p), st.path).kind # "dir"

FailsNow(p) ==
    /\ \E c \in calls' \ calls : c.p = p /\ c.cb = "task_init" /\ c.body = "failed"
    /\ pc'[p] = "reaped"

ComponentEnds(p, path) ==
    {k \in (Len(BaseOf(p)) + 1)..Len(path) : k = Len(path) \/ path[k + 1] = "/"}

C27_NonDirectoryFailsWalk ==
    [][\A p \in Procs :
          /\ ( /\ pc[p] \in {"mk_stat", "mk_mkdir"}
               /\ Stepped(p)
               /\ BelowBase(p, Component(loc[p]))
               /\ NonDirectory(fs, p, Component(loc[p])) )
                => /\ created' = created
                   /\ TMPDIR' = TMPDIR
                   /\ (pc[p] = "mk_stat" \/ loc[p].final) => FailsNow(p)
          /\ (pc[p] \in {"mk_stat", "mk_mkdir"} /\ TMPDIR'[p] # TMPDIR[p])
                => \A k \in ComponentEnds(p, TMPDIR'[p]) :
                      ~NonDirectory(fs', p, CutAt(TMPDIR'[p], k))]_vars

(* _mktmpdir has failed on a file that was put in its way after its stat,  *)
(* and TMPDIR is not set                                                   *)
C27_Witness ==
    \E c \in calls :
       /\ c.cb = "task_init" /\ c.body = "failed"
       /\ c.why.kind = "mkdir" /\ c.why.err \in {"EEXIST", "ENOTDIR"} /\ ~c.why.isdir
       /\ TMPDIR[c.p] = NULL
       /\ \E k \in 1..Len(c.tmpdir) :
             /\ Has(fs, Node(c.p), CutAt(c.tmpdir, k))
             /\ Get(fs, Node(c.p), CutAt(c.tmpdir, k)).kind = "file"

(***************************************************************************)
(* C28: _mktmpdir never creates the base directory itself nor an ancestor  *)
(* of it: every directory it creates is a strict descendant of the base    *)
(* the formatter chose, also when the base is removed by another process   *)
(* between the access probe and the walk.                                  *)
(***************************************************************************)
C28_CreatesOnlyBelowBase ==
    [][\A p \in Procs :
          \A c \in created' \ created :
             c.p = p => (c.path # BaseOf(p) /\ PathUnder(c.path, BaseOf(p)))]_vars

(***************************************************************************)
(* C29: in auto_tmpdir.c the exit callback of a real step never removes    *)
(* the job-level directory, under any policy; with per-step directories    *)
(* disabled, where the step's TMPDIR is the job-level path, that directory *)
(* stays until the batch step exits.                                       *)
(***************************************************************************)
OldJobLevelDirs ==
    {auto_tmpdir_job_format(b, TheJob) : b \in {default_tmpdir_prefix, S_scratch}}

C29_RealStepKeepsJobDir ==
    \A r \in removed : (r.cb = "exit" /\ RealStep(r.p)) => r.path \notin OldJobLevelDirs

(***************************************************************************)
(* C30: slurm_spank_task_exit for a task of a real step (job J, step S,    *)
(* task T) changes the file system only at or beneath that task's own leaf *)
(* directory <base>/job_J[/<host>]/step_S.T: the job-level directory, the  *)
(* leaf directories of other tasks and steps and everything in them stay   *)
(* as they are.  (The leaf is taken where its path resolves to, for a job  *)
(* directory that is a symbolic link.)                                     *)
(***************************************************************************)
LeafName(p) ==
    S_step \o Dec(spank[p].job_step_id) \o S_dot \o Dec(spank[p].task_id)

LeavesOf(p) ==
    {b \o S_job \o Dec(spank[p].job_id) \o LeafName(p) : b \in Bases}
       \cup {b \o S_job \o Dec(spank[p].job_id) \o S_slash
                 \o ShortNameOf(Node(p)) \o LeafName(p) : b \in Bases}

Changed(k) == k \notin DOMAIN fs \/ k \notin DOMAIN fs' \/ fs'[k] # fs[k]

C30_TaskExitStaysInLeaf ==
    [][\A p \in Procs :
          (loc[p].cb = "task_exit" /\ RealStep(p) /\ Stepped(p))
             => \A k \in DOMAIN fs \cup DOMAIN fs' :
                   Changed(k) =>
                      \E leaf \in LeavesOf(p) :
                      \E r \in {Resolve(fs, Node(p), cred[p].euid, cred[p].egid, leaf, FALSE)} :
                         /\ r.err = "OK"
                         /\ PathUnder(k[2], r.path)
                         /\ k[1] = VolOf(Node(p), r.path)]_vars

(* the task exit of one of two real tasks on a node has removed its leaf   *)
(* directory with the file in it; the other task's leaf and the job-level  *)
(* directory are there                                                     *)
C30_Witness ==
    \E c \in calls :
       /\ c.cb = "task_exit" /\ c.body = "ok" /\ RealStep(c.p)
       /\ \E m \in removed : m.p = c.p /\ m.cb = "task_exit" /\ m.path \in LeavesOf(c.p)
       /\ \E m \in removed : m.p = c.p /\ m.cb = "task_exit" /\ m.path \notin LeavesOf(c.p)
       /\ \E q \in Procs \ {c.p} :
             /\ RealStep(q)
             /\ TMPDIR[q] # NULL /\ TMPDIR[q] \in LeavesOf(q) \ LeavesOf(c.p)
             /\ Has(fs, Node(q), TMPDIR[q])
             /\ Node(q) = Node(c.p)
       /\ \E j \in JobLevelDirs : Has(fs, Node(c.p), j)

====
